---- MODULE Spec2Model ----
(***************************************************************************)
(* Route discovery (scanRoutes / analyzeRouteFile), method expansion       *)
(* (expandRoutesToMethods) and the dev server's request router             *)
(* (DevServer.findMatchingRoute / scanAndRegisterRoutes) of the lumo       *)
(* framework CLI.                                                          *)
(*                                                                         *)
(* JavaScript strings are modelled as sequences of one-character strings,  *)
(* so that endsWith, replace, split, includes and toUpperCase are computed *)
(* character by character as the runtime computes them.                    *)
(***************************************************************************)
EXTENDS Integers, Sequences, FiniteSets, TLC

----------------------------------------------------------------------------
(* String primitives (ECMAScript String.prototype semantics).              *)

LowerLetters ==
  <<"a", "b", "c", "d", "e", "f", "g", "h", "i", "j", "k", "l", "m",
    "n", "o", "p", "q", "r", "s", "t", "u", "v", "w", "x", "y", "z">>

UpperLetters ==
  <<"A", "B", "C", "D", "E", "F", "G", "H", "I", "J", "K", "L", "M",
    "N", "O", "P", "Q", "R", "S", "T", "U", "V", "W", "X", "Y", "Z">>

Range(s) ==
  { s[i] : i \in DOMAIN s }

\* s.toUpperCase()
toUpperCase(s) ==
  [ i \in DOMAIN s |->
      IF \E k \in DOMAIN LowerLetters : LowerLetters[k] = s[i]
        THEN UpperLetters[CHOOSE k \in DOMAIN LowerLetters : LowerLetters[k] = s[i]]
        ELSE s[i] ]

\* s.toLowerCase()
toLowerCase(s) ==
  [ i \in DOMAIN s |->
      IF \E k \in DOMAIN UpperLetters : UpperLetters[k] = s[i]
        THEN LowerLetters[CHOOSE k \in DOMAIN UpperLetters : UpperLetters[k] = s[i]]
        ELSE s[i] ]

\* whether sub occurs in s at (1-based) position i
OccursAt(s, sub, i) ==
  /\ i >= 1
  /\ i + Len(sub) - 1 <= Len(s)
  /\ \A k \in 1..Len(sub) : s[i + k - 1] = sub[k]

\* s.startsWith(sub)
startsWith(s, sub) ==
  OccursAt(s, sub, 1)

\* s.endsWith(sub)
endsWith(s, sub) ==
  OccursAt(s, sub, Len(s) - Len(sub) + 1)

\* s.includes(sub)
includes(s, sub) ==
  \E i \in 1..(Len(s) + 1) : OccursAt(s, sub, i)

\* s.replace(sub, rep) with a string pattern: the FIRST occurrence only
replace(s, sub, rep) ==
  IF includes(s, sub)
    THEN LET i == CHOOSE j \in 1..(Len(s) + 1) :
                    /\ OccursAt(s, sub, j)
                    /\ \A k \in 1..(j - 1) : ~OccursAt(s, sub, k)
         IN  SubSeq(s, 1, i - 1) \o rep \o SubSeq(s, i + Len(sub), Len(s))
    ELSE s

\* s.replace(/sub$/, ''): remove sub when it ends the string
replaceAtEnd(s, sub) ==
  IF endsWith(s, sub) THEN SubSeq(s, 1, Len(s) - Len(sub)) ELSE s

\* s.replace(/c/g, rep) for a one-character pattern c
replaceAll(s, ch, rep) ==
  [ i \in DOMAIN s |-> IF s[i] = ch THEN rep ELSE s[i] ]

\* s.split(ch) for a one-character separator: "" gives [""], "/a" gives ["", "a"]
RECURSIVE split(_, _)
split(s, ch) ==
  IF \E i \in DOMAIN s : s[i] = ch
    THEN LET i == CHOOSE j \in DOMAIN s :
                    s[j] = ch /\ \A k \in 1..(j - 1) : s[k] # ch
         IN  <<SubSeq(s, 1, i - 1)>> \o split(SubSeq(s, i + 1, Len(s)), ch)
    ELSE <<s>>

\* parts.join(sep)
RECURSIVE join(_, _)
join(parts, sep) ==
  IF Len(parts) = 0 THEN <<>>
  ELSE IF Len(parts) = 1 THEN parts[1]
  ELSE parts[1] \o sep \o join(Tail(parts), sep)

\* arr.includes(x)
arrayIncludes(arr, x) ==
  \E i \in DOMAIN arr : arr[i] = x

\* [...new Set(arr)]: drop repeats, keep the first occurrence's position
RECURSIVE dedupe(_)
dedupe(arr) ==
  IF arr = <<>> THEN <<>>
  ELSE LET init == dedupe(SubSeq(arr, 1, Len(arr) - 1))
           last == arr[Len(arr)]
       IN  IF arrayIncludes(init, last) THEN init ELSE Append(init, last)

----------------------------------------------------------------------------
(* String literals of the source.                                          *)

S_GET == <<"G", "E", "T">>
S_POST == <<"P", "O", "S", "T">>
S_PUT == <<"P", "U", "T">>
S_PATCH == <<"P", "A", "T", "C", "H">>
S_DELETE == <<"D", "E", "L", "E", "T", "E">>
S_HEAD == <<"H", "E", "A", "D">>
S_OPTIONS == <<"O", "P", "T", "I", "O", "N", "S">>
S_ALL == <<"A", "L", "L">>
S_default == <<"d", "e", "f", "a", "u", "l", "t">>
S_handler == <<"h", "a", "n", "d", "l", "e", "r">>
S_functionsApi == <<"f", "u", "n", "c", "t", "i", "o", "n", "s", "/", "a", "p", "i">>
S_dotTs == <<".", "t", "s">>
S_slashIndex == <<"/", "i", "n", "d", "e", "x">>
S_slash == <<"/">>
S_RouteNotFound == <<"R", "o", "u", "t", "e", " ", "n", "o", "t", " ", "f", "o", "u", "n", "d">>
S_empty == <<>>

\* const httpMethods = ['GET', 'POST', 'PUT', 'PATCH', 'DELETE', 'HEAD', 'OPTIONS']
httpMethods ==
  <<S_GET, S_POST, S_PUT, S_PATCH, S_DELETE, S_HEAD, S_OPTIONS>>

\* const methodFiles = ['create', 'update', 'delete', 'edit', 'new']
methodFiles ==
  <<<<"c", "r", "e", "a", "t", "e">>,
    <<"u", "p", "d", "a", "t", "e">>,
    <<"d", "e", "l", "e", "t", "e">>,
    <<"e", "d", "i", "t">>,
    <<"n", "e", "w">>>>

----------------------------------------------------------------------------
(* The file tree.  A disk maps each existing file path to the keys of      *)
(* ts-morph's getExportedDeclarations() map for that file, in map order;   *)
(* a default export appears there under the key "default", and             *)
(* getDefaultExportSymbol() is defined exactly when it does.               *)
(* project.addSourceFileAtPath(file) throws when the file does not exist.  *)

\* sourceFile.getDefaultExportSymbol() !== undefined
hasDefaultExportSymbol(sourceFile) ==
  arrayIncludes(sourceFile, S_default)

\* path.relative('functions/api', filePath) for a path without . or .. segments
pathRelative(root, filePath) ==
  IF filePath = root THEN S_empty
  ELSE IF startsWith(filePath, root \o S_slash)
    THEN SubSeq(filePath, Len(root) + 2, Len(filePath))
  ELSE <<".", ".", "/", ".", ".", "/">> \o filePath

----------------------------------------------------------------------------
(* Route discovery: analyzeRouteFile and scanRoutes.                       *)

\* the names among exportNames with httpMethods.includes(name.toUpperCase())
RECURSIVE methodExportsOf(_)
methodExportsOf(exportNames) ==
  IF exportNames = <<>> THEN <<>>
  ELSE (IF arrayIncludes(httpMethods, toUpperCase(exportNames[1]))
          THEN <<exportNames[1]>> ELSE <<>>)
       \o methodExportsOf(Tail(exportNames))

\* arr.map(name => name.toUpperCase())
upperAll(arr) ==
  [ i \in DOMAIN arr |-> toUpperCase(arr[i]) ]

\* RouteInfo.file is string | string[]
fileString(f) ==
  [isArray |-> FALSE, str |-> f, arr |-> <<>>]

fileArray(fs) ==
  [isArray |-> TRUE, str |-> S_empty, arr |-> fs]

NoRouteInfo ==
  [file |-> fileString(S_empty), route |-> S_empty, methods |-> <<>>,
   hasDefaultExport |-> FALSE, exports |-> <<>>]

\* the route path after "Generate route path from file path" and "Handle index
\* files": relative path, extension stripped, '/index' replaced once
indexCollapsed(filePath) ==
  LET relativePath == pathRelative(S_functionsApi, filePath)
      routePath0 == S_slash \o replaceAll(replaceAtEnd(relativePath, S_dotTs), "\\", "/")
      replaced == replace(routePath0, S_slashIndex, S_empty)
  IN  IF endsWith(routePath0, S_slashIndex)
        THEN (IF replaced = S_empty THEN S_slash ELSE replaced)
        ELSE routePath0

\* the route path of a file: indexCollapsed and then the method-file heuristic
routePathOf(filePath) ==
  LET routePath1 == indexCollapsed(filePath)
      pathParts == split(routePath1, "/")
      fileName == pathParts[Len(pathParts)]
      parent == join(SubSeq(pathParts, 1, Len(pathParts) - 1), S_slash)
  IN  IF /\ fileName # S_empty
         /\ ~includes(fileName, <<"[">>)
         /\ ~includes(fileName, <<"]">>)
         /\ Len(pathParts) > 1
         /\ arrayIncludes(methodFiles, toLowerCase(fileName))
        THEN (IF parent = S_empty THEN S_slash ELSE parent)
        ELSE routePath1

\* mutant of analyzeRouteFile: a file with no exports is not skipped
analyzeRouteFile_noSkip(sourceFile, filePath) ==
  LET hasDefaultExport == hasDefaultExportSymbol(sourceFile)
      exportNames == sourceFile
      detected0 == upperAll(methodExportsOf(exportNames))
      detectedMethods ==
        IF Len(detected0) = 0
             /\ (hasDefaultExport \/ arrayIncludes(exportNames, S_handler))
          THEN <<S_ALL>>
          ELSE detected0
  IN  IF ~includes(filePath, S_functionsApi)
        THEN [tag |-> "throw", info |-> NoRouteInfo]
      ELSE [tag |-> "ok",
            info |-> [file |-> fileString(filePath),
                      route |-> routePathOf(filePath),
                      methods |-> dedupe(detectedMethods),
                      hasDefaultExport |-> hasDefaultExport,
                      exports |-> exportNames]]

\* analyzeRouteFile(sourceFile, filePath): tag "null" for a skipped file,
\* "throw" for the Unsupported file path error, "ok" with the RouteInfo
analyzeRouteFile(sourceFile, filePath) ==
  LET hasDefaultExport == hasDefaultExportSymbol(sourceFile)
      exportNames == sourceFile
      detected0 == upperAll(methodExportsOf(exportNames))
      detectedMethods ==
        IF Len(detected0) = 0
             /\ (hasDefaultExport \/ arrayIncludes(exportNames, S_handler))
          THEN <<S_ALL>>
          ELSE detected0
  IN  IF Len(detectedMethods) = 0 /\ ~hasDefaultExport /\ Len(exportNames) = 0
        THEN [tag |-> "null", info |-> NoRouteInfo]
      ELSE IF ~includes(filePath, S_functionsApi)
        THEN [tag |-> "throw", info |-> NoRouteInfo]
      ELSE [tag |-> "ok",
            info |-> [file |-> fileString(filePath),
                      route |-> routePathOf(filePath),
                      methods |-> dedupe(detectedMethods),
                      hasDefaultExport |-> hasDefaultExport,
                      exports |-> exportNames]]

\* mutant of mergeRoute: the unions keep their duplicates
mergeRoute_noDedupe(existingRoute, routeInfo) ==
  [existingRoute EXCEPT
     !.methods = existingRoute.methods \o routeInfo.methods,
     !.exports = existingRoute.exports \o routeInfo.exports,
     !.hasDefaultExport = existingRoute.hasDefaultExport \/ routeInfo.hasDefaultExport,
     !.file = IF existingRoute.file.isArray
                THEN fileArray(Append(existingRoute.file.arr, routeInfo.file.str))
                ELSE fileArray(<<existingRoute.file.str, routeInfo.file.str>>)]

\* mutant of mergeRoute: the later file's methods and exports replace the earlier ones
mergeRoute_overwrite(existingRoute, routeInfo) ==
  [existingRoute EXCEPT
     !.methods = routeInfo.methods,
     !.exports = routeInfo.exports,
     !.hasDefaultExport = existingRoute.hasDefaultExport \/ routeInfo.hasDefaultExport,
     !.file = IF existingRoute.file.isArray
                THEN fileArray(Append(existingRoute.file.arr, routeInfo.file.str))
                ELSE fileArray(<<existingRoute.file.str, routeInfo.file.str>>)]

\* the merge of routeInfo into the record already stored under its route
mergeRoute(existingRoute, routeInfo) ==
  [existingRoute EXCEPT
     !.methods = dedupe(existingRoute.methods \o routeInfo.methods),
     !.exports = dedupe(existingRoute.exports \o routeInfo.exports),
     !.hasDefaultExport = existingRoute.hasDefaultExport \/ routeInfo.hasDefaultExport,
     !.file = IF existingRoute.file.isArray
                THEN fileArray(Append(existingRoute.file.arr, routeInfo.file.str))
                ELSE fileArray(<<existingRoute.file.str, routeInfo.file.str>>)]

\* the body of the try of one iteration throws: addSourceFileAtPath does for a
\* file that is not on the disk, analyzeRouteFile for an unsupported path
iterationThrows(file, disk) ==
  \/ file \notin DOMAIN disk
  \/ analyzeRouteFile(disk[file], file).tag = "throw"

\* the files for which the catch of the loop logs 'Failed to analyze'
scanWarnings(allFiles, disk) ==
  SelectSeq(allFiles, LAMBDA file : iterationThrows(file, disk))

\* mutant of scanOne: a failing file discards the routes collected before it
scanOne_abortOnError(routeMap, file, disk) ==
  IF file \notin DOMAIN disk THEN <<>>
  ELSE LET result == analyzeRouteFile(disk[file], file)
           routeInfo == result.info
       IN  IF result.tag = "throw" THEN <<>>
           ELSE IF result.tag = "null" THEN routeMap
           ELSE IF \E i \in DOMAIN routeMap : routeMap[i].route = routeInfo.route
             THEN [ i \in DOMAIN routeMap |->
                      IF routeMap[i].route = routeInfo.route
                        THEN mergeRoute(routeMap[i], routeInfo)
                        ELSE routeMap[i] ]
           ELSE Append(routeMap, routeInfo)

\* one iteration of the loop of scanRoutes over allFiles; routeMap is the
\* Map's values in insertion order
scanOne(routeMap, file, disk) ==
  IF file \notin DOMAIN disk THEN routeMap
  ELSE LET result == analyzeRouteFile(disk[file], file)
           routeInfo == result.info
       IN  IF result.tag # "ok" THEN routeMap
           ELSE IF \E i \in DOMAIN routeMap : routeMap[i].route = routeInfo.route
             THEN [ i \in DOMAIN routeMap |->
                      IF routeMap[i].route = routeInfo.route
                        THEN mergeRoute(routeMap[i], routeInfo)
                        ELSE routeMap[i] ]
           ELSE Append(routeMap, routeInfo)

\* scanRoutes() once glob has answered allFiles
RECURSIVE scanRoutes(_, _)
scanRoutes(allFiles, disk) ==
  IF Len(allFiles) = 0 THEN <<>>
  ELSE scanOne(scanRoutes(SubSeq(allFiles, 1, Len(allFiles) - 1), disk),
               allFiles[Len(allFiles)], disk)

----------------------------------------------------------------------------
(* Method expansion: expandRoutesToMethods.                                *)

\* one MethodRoute per name of methodExports, for one file
methodRoutesFor(file, route, methodExports) ==
  [ i \in DOMAIN methodExports |->
      [file |-> file, route |-> route,
       method |-> toUpperCase(methodExports[i]),
       exportName |-> methodExports[i]] ]

\* mutant of expandExports: the ALL route is emitted beside the method routes
expandExports_alsoAll(file, route, exportNames, hasDefaultExport) ==
  methodRoutesFor(file, route, methodExportsOf(exportNames))
  \o (IF hasDefaultExport \/ arrayIncludes(exportNames, S_handler)
        THEN <<[file |-> file, route |-> route, method |-> S_ALL,
                exportName |-> IF hasDefaultExport THEN S_default ELSE S_handler]>>
        ELSE <<>>)

\* the body of the if/else-if that both branches of the expansion share
expandExports(file, route, exportNames, hasDefaultExport) ==
  LET methodExports == methodExportsOf(exportNames)
  IN  IF Len(methodExports) > 0
        THEN methodRoutesFor(file, route, methodExports)
      ELSE IF hasDefaultExport \/ arrayIncludes(exportNames, S_handler)
        THEN <<[file |-> file, route |-> route, method |-> S_ALL,
                exportName |-> IF hasDefaultExport THEN S_default ELSE S_handler]>>
      ELSE <<>>

\* the multi-file branch: every file is read again from the disk
RECURSIVE expandFiles(_, _, _)
expandFiles(files, route, disk) ==
  IF files = <<>> THEN <<>>
  ELSE (IF files[1] \notin DOMAIN disk THEN <<>>
        ELSE expandExports(files[1], route, disk[files[1]],
                           hasDefaultExportSymbol(disk[files[1]])))
       \o expandFiles(Tail(files), route, disk)

\* const files = Array.isArray(route.file) ? route.file : [route.file]
filesOf(route) ==
  IF route.file.isArray THEN route.file.arr ELSE <<route.file.str>>

\* mutant of expandRoute: of the MethodRoutes of one route only the first for
\* each method is kept
expandRoute_uniqueMethods(route, disk) ==
  LET files == filesOf(route)
      all == IF Len(files) > 1
               THEN expandFiles(files, route.route, disk)
               ELSE expandExports(files[1], route.route, route.exports, route.hasDefaultExport)
      first(n) == \A k \in 1..(n - 1) : all[k].method # all[n].method
      RECURSIVE keep(_)
      keep(n) == IF n = 0 THEN <<>>
                 ELSE IF first(n) THEN Append(keep(n - 1), all[n]) ELSE keep(n - 1)
  IN  keep(Len(all))

\* mutant of expandRoute: the multi-file branch expands the consolidated
\* exports of the route for each of its files
expandRoute_shared(route, disk) ==
  LET files == filesOf(route)
      RECURSIVE each(_)
      each(fs) ==
        IF fs = <<>> THEN <<>>
        ELSE expandExports(fs[1], route.route, route.exports, route.hasDefaultExport)
             \o each(Tail(fs))
  IN  each(files)

\* the MethodRoutes of one RouteInfo
expandRoute(route, disk) ==
  LET files == filesOf(route)
  IN  IF Len(files) > 1
        THEN expandFiles(files, route.route, disk)
        ELSE expandExports(files[1], route.route, route.exports, route.hasDefaultExport)

RECURSIVE expandRoutesToMethods(_, _)
expandRoutesToMethods(routes, disk) ==
  IF routes = <<>> THEN <<>>
  ELSE expandRoute(routes[1], disk) \o expandRoutesToMethods(Tail(routes), disk)

----------------------------------------------------------------------------
(* The scanner of packages/cli/src/project/route-scanner.ts: the copy of   *)
(* scanRoutes, analyzeRouteFile and expandRoutesToMethods in that file.    *)
(* Its RouteInfo.file is always a string.                                  *)

\* analyzeRouteFile of route-scanner.ts: no method-file heuristic
analyzeRouteFile_routeScanner(sourceFile, filePath) ==
  LET hasDefaultExport == hasDefaultExportSymbol(sourceFile)
      exportNames == sourceFile
      detected0 == upperAll(methodExportsOf(exportNames))
      detectedMethods ==
        IF Len(detected0) = 0
             /\ (hasDefaultExport \/ arrayIncludes(exportNames, S_handler))
          THEN <<S_ALL>>
          ELSE detected0
  IN  IF Len(detectedMethods) = 0 /\ ~hasDefaultExport /\ Len(exportNames) = 0
        THEN [tag |-> "null", info |-> NoRouteInfo]
      ELSE IF ~includes(filePath, S_functionsApi)
        THEN [tag |-> "throw", info |-> NoRouteInfo]
      ELSE [tag |-> "ok",
            info |-> [file |-> fileString(filePath),
                      route |-> indexCollapsed(filePath),
                      methods |-> dedupe(detectedMethods),
                      hasDefaultExport |-> hasDefaultExport,
                      exports |-> exportNames]]

\* scanRoutes of route-scanner.ts once glob has answered allFiles: every
\* RouteInfo is pushed onto routes
RECURSIVE scanRoutes_routeScanner(_, _)
scanRoutes_routeScanner(allFiles, disk) ==
  IF Len(allFiles) = 0 THEN <<>>
  ELSE LET routes == scanRoutes_routeScanner(SubSeq(allFiles, 1, Len(allFiles) - 1), disk)
           file == allFiles[Len(allFiles)]
           result == IF file \in DOMAIN disk
                       THEN analyzeRouteFile_routeScanner(disk[file], file)
                       ELSE [tag |-> "throw", info |-> NoRouteInfo]
       IN  IF result.tag = "ok" THEN Append(routes, result.info) ELSE routes

\* expandRoutesToMethods of route-scanner.ts
RECURSIVE expandRoutesToMethods_routeScanner(_)
expandRoutesToMethods_routeScanner(routes) ==
  IF routes = <<>> THEN <<>>
  ELSE expandExports(routes[1].file.str, routes[1].route, routes[1].exports,
                     routes[1].hasDefaultExport)
       \o expandRoutesToMethods_routeScanner(Tail(routes))

----------------------------------------------------------------------------
(* Subscriber discovery: analyzeSubscriberFile and scanSubscribers.        *)

S_functionsSubscribers == <<"f", "u", "n", "c", "t", "i", "o", "n", "s", "/", "s", "u", "b", "s", "c", "r", "i", "b", "e", "r", "s">>
S_listen == <<"l", "i", "s", "t", "e", "n">>

NoSubscriberInfo ==
  [file |-> S_empty, name |-> S_empty, hasDefaultExport |-> FALSE, exports |-> <<>>]

\* analyzeSubscriberFile(sourceFile, filePath)
analyzeSubscriberFile(sourceFile, filePath) ==
  LET hasDefaultExport == hasDefaultExportSymbol(sourceFile)
      exportNames == sourceFile
      relativePath == pathRelative(S_functionsSubscribers, filePath)
  IN  IF ~hasDefaultExport /\ Len(exportNames) = 0
        THEN [tag |-> "null", info |-> NoSubscriberInfo]
      ELSE IF ~includes(filePath, S_functionsSubscribers)
        THEN [tag |-> "throw", info |-> NoSubscriberInfo]
      ELSE [tag |-> "ok",
            info |-> [file |-> filePath,
                      name |-> replaceAll(replaceAtEnd(relativePath, S_dotTs), "\\", "/"),
                      hasDefaultExport |-> hasDefaultExport,
                      exports |-> exportNames]]

\* mutant of scanSubscribers: a record whose name is already present is dropped
RECURSIVE scanSubscribers_uniqueNames(_, _)
scanSubscribers_uniqueNames(allFiles, disk) ==
  IF Len(allFiles) = 0 THEN <<>>
  ELSE LET subscribers == scanSubscribers_uniqueNames(SubSeq(allFiles, 1, Len(allFiles) - 1), disk)
           file == allFiles[Len(allFiles)]
           result == IF file \in DOMAIN disk
                       THEN analyzeSubscriberFile(disk[file], file)
                       ELSE [tag |-> "throw", info |-> NoSubscriberInfo]
       IN  IF result.tag = "ok"
              /\ \A k \in DOMAIN subscribers : subscribers[k].name # result.info.name
             THEN Append(subscribers, result.info)
             ELSE subscribers

\* scanSubscribers() once glob has answered allFiles
RECURSIVE scanSubscribers(_, _)
scanSubscribers(allFiles, disk) ==
  IF Len(allFiles) = 0 THEN <<>>
  ELSE LET subscribers == scanSubscribers(SubSeq(allFiles, 1, Len(allFiles) - 1), disk)
           file == allFiles[Len(allFiles)]
           result == IF file \in DOMAIN disk
                       THEN analyzeSubscriberFile(disk[file], file)
                       ELSE [tag |-> "throw", info |-> NoSubscriberInfo]
       IN  IF result.tag = "ok" THEN Append(subscribers, result.info) ELSE subscribers

----------------------------------------------------------------------------
(* The Cloudflare router generator: convertFilePathToPattern and           *)
(* extractRouteInfo.                                                       *)

S_slashRoute == <<"/", "r", "o", "u", "t", "e">>
S_handlerSuffix == <<"_", "h", "a", "n", "d", "l", "e", "r">>

\* the index of the first close in s after position 1, or 0
firstClose(s, close) ==
  IF \E j \in 2..Len(s) : s[j] = close
    THEN CHOOSE j \in 2..Len(s) : s[j] = close /\ \A i \in 2..(j - 1) : s[i] # close
    ELSE 0

\* s.replace(/<open>([^<close>]+)<close>/g, (_, paramName) => { paramNames.push(paramName);
\* return `:${paramName}` })
RECURSIVE convertParams(_, _, _)
convertParams(s, open, close) ==
  IF s = <<>> THEN [pathPattern |-> <<>>, paramNames |-> <<>>]
  ELSE IF s[1] = open /\ firstClose(s, close) >= 3
    THEN LET j == firstClose(s, close)
             paramName == SubSeq(s, 2, j - 1)
             rest == convertParams(SubSeq(s, j + 1, Len(s)), open, close)
         IN  [pathPattern |-> <<":">> \o paramName \o rest.pathPattern,
              paramNames |-> <<paramName>> \o rest.paramNames]
  ELSE LET rest == convertParams(Tail(s), open, close)
       IN  [pathPattern |-> <<s[1]>> \o rest.pathPattern,
            paramNames |-> rest.paramNames]

\* convertFilePathToPattern(filePath)
convertFilePathToPattern(filePath) ==
  LET square == convertParams(filePath, "[", "]")
      curly == convertParams(square.pathPattern, "{", "}")
  IN  [path |-> filePath,
       pathPattern |-> curly.pathPattern,
       paramNames |-> square.paramNames \o curly.paramNames]

\* the RouteInfo that extractRouteInfo makes of one route name
extractRouteInfo(name) ==
  LET nameParts == split(name, "-")
      last == toUpperCase(nameParts[Len(nameParts)])
      method == IF last = S_empty THEN S_GET ELSE last
      baseRouteName == join(SubSeq(nameParts, 1, Len(nameParts) - 1), <<"-">>)
      replaced == replace(baseRouteName, S_slashRoute, S_empty)
      routePath0 == IF endsWith(baseRouteName, S_slashRoute)
                      THEN (IF replaced = S_empty THEN S_slash ELSE replaced)
                      ELSE (IF baseRouteName = S_empty THEN S_slash ELSE baseRouteName)
      routePath == IF startsWith(routePath0, S_slash) THEN routePath0
                   ELSE S_slash \o routePath0
      converted == convertFilePathToPattern(routePath)
  IN  [path |-> converted.path,
       pathPattern |-> converted.pathPattern,
       method |-> method,
       functionName |-> name,
       handlerFunction |-> replaceAll(name, "-", "_") \o S_handlerSuffix,
       paramNames |-> converted.paramNames]

----------------------------------------------------------------------------
(* State.                                                                  *)

VARIABLES
  disk,           \* the file tree: file path -> export names of the file
  tasks,          \* the scanAndRegisterRoutes() calls started so far
  routeHandlers,  \* DevServer.routeHandlers: entries [key, handlers] in Map order
  listening,      \* startServer() has run: requests are being dispatched
  lastDispatch,   \* the handleRequest() run by the latest step, if it was a request
  call            \* the latest call of a function taken on its own: arguments and result

vars ==
  <<disk, tasks, routeHandlers, listening, lastDispatch, call>>

\* bounds of the model
MaxFiles == 3

\* one call of scanAndRegisterRoutes(): its position and its local variables
NewTask ==
  [pc |-> "glob", allFiles |-> <<>>, warnings |-> <<>>, routes |-> <<>>,
   methodRoutes |-> <<>>, i |-> 1]

\* a call that has returned: its locals are gone
DoneTask ==
  [pc |-> "done", allFiles |-> <<>>, warnings |-> <<>>, routes |-> <<>>,
   methodRoutes |-> <<>>, i |-> 1]

NoDispatch ==
  [served |-> FALSE]

NoCall ==
  [fn |-> "none"]

\* the value of a property that an object does not have
Undefined ==
  <<"undefined">>

\* the orders in which glob can list the files of a tree
GlobOrders(files) ==
  { order \in [1..Cardinality(files) -> files] :
      \A a, b \in 1..Cardinality(files) : order[a] = order[b] => a = b }

----------------------------------------------------------------------------
(* The scan pipeline of one task: scanRoutes() then expandRoutesToMethods. *)

\* const files = await glob(pattern): the listing of the tree at this moment
Glob(t) ==
  /\ tasks[t].pc = "glob"
  /\ \E order \in GlobOrders(DOMAIN disk) :
       tasks' = [tasks EXCEPT ![t].allFiles = order, ![t].pc = "scan"]
  /\ lastDispatch' = NoDispatch
  /\ UNCHANGED <<call, disk, routeHandlers, listening>>

\* the loop of scanRoutes over allFiles (synchronous reads of the tree)
ScanLoop(t) ==
  /\ tasks[t].pc = "scan"
  /\ tasks' = [tasks EXCEPT ![t].routes = scanRoutes(tasks[t].allFiles, disk),
                            ![t].warnings = scanWarnings(tasks[t].allFiles, disk),
                            ![t].pc = "expand"]
  /\ lastDispatch' = NoDispatch
  /\ UNCHANGED <<call, disk, routeHandlers, listening>>

\* const methodRoutes = expandRoutesToMethods(routes)
Expand(t) ==
  /\ tasks[t].pc = "expand"
  /\ tasks' = [tasks EXCEPT
                 ![t].methodRoutes = expandRoutesToMethods(tasks[t].routes, disk),
                 ![t].pc = "clear"]
  /\ lastDispatch' = NoDispatch
  /\ UNCHANGED <<call, disk, routeHandlers, listening>>

----------------------------------------------------------------------------
(* Specification of the scanner alone: one scan and expansion of a tree    *)
(* drawn from ScanMenu.                                                    *)

\* file paths of the trees that are scanned
F_index == <<"f", "u", "n", "c", "t", "i", "o", "n", "s", "/", "a", "p", "i", "/", "i", "n", "d", "e", "x", ".", "t", "s">>
F_usersIndex == <<"f", "u", "n", "c", "t", "i", "o", "n", "s", "/", "a", "p", "i", "/", "u", "s", "e", "r", "s", "/", "i", "n", "d", "e", "x", ".", "t", "s">>
F_usersCreate == <<"f", "u", "n", "c", "t", "i", "o", "n", "s", "/", "a", "p", "i", "/", "u", "s", "e", "r", "s", "/", "c", "r", "e", "a", "t", "e", ".", "t", "s">>
F_users == <<"f", "u", "n", "c", "t", "i", "o", "n", "s", "/", "a", "p", "i", "/", "u", "s", "e", "r", "s", ".", "t", "s">>
F_usersId == <<"f", "u", "n", "c", "t", "i", "o", "n", "s", "/", "a", "p", "i", "/", "u", "s", "e", "r", "s", "/", "[", "i", "d", "]", ".", "t", "s">>
F_indexesIndex == <<"f", "u", "n", "c", "t", "i", "o", "n", "s", "/", "a", "p", "i", "/", "i", "n", "d", "e", "x", "e", "s", "/", "i", "n", "d", "e", "x", ".", "t", "s">>
F_indexesNew == <<"f", "u", "n", "c", "t", "i", "o", "n", "s", "/", "a", "p", "i", "/", "i", "n", "d", "e", "x", "e", "s", "/", "N", "e", "w", ".", "t", "s">>

S_get == <<"g", "e", "t">>
S_helper == <<"h", "e", "l", "p", "e", "r">>

\* the candidate files: for each path, the export lists it may have
ScanMenu ==
  (F_index :> { <<S_GET>>, <<S_default>> })
  @@ (F_usersIndex :> { <<S_GET>>, <<S_GET, S_POST>>, <<S_get, S_GET>> })
  @@ (F_usersCreate :> { <<S_POST>>, <<S_default>>, <<S_default, S_POST>> })
  @@ (F_users :> { <<S_handler>>, <<S_helper>>, <<>> })
  @@ (F_usersId :> { <<S_GET>> })
  @@ (F_indexesIndex :> { <<S_GET>> })
  @@ (F_indexesNew :> { <<S_POST>>, <<S_handler>> })

ScanPaths ==
  DOMAIN ScanMenu

ScanDisks ==
  UNION { { d \in [files -> UNION { ScanMenu[f] : f \in files }] :
              \A f \in files : d[f] \in ScanMenu[f] } :
            files \in { fs \in SUBSET ScanPaths : Cardinality(fs) <= MaxFiles } }

InitScan ==
  /\ disk \in ScanDisks
  /\ tasks = <<NewTask>>
  /\ routeHandlers = <<>>
  /\ listening = FALSE
  /\ lastDispatch = NoDispatch
  /\ call = NoCall

NextScan ==
  \E t \in DOMAIN tasks : Glob(t) \/ ScanLoop(t) \/ Expand(t)

SpecScan ==
  InitScan /\ [][NextScan]_vars

\* the same scan and expansion done by the scanner of route-scanner.ts
ScanLoop_routeScanner(t) ==
  /\ tasks[t].pc = "scan"
  /\ tasks' = [tasks EXCEPT
                 ![t].routes = scanRoutes_routeScanner(tasks[t].allFiles, disk),
                 ![t].warnings = scanWarnings(tasks[t].allFiles, disk),
                 ![t].pc = "expand"]
  /\ lastDispatch' = NoDispatch
  /\ UNCHANGED <<call, disk, routeHandlers, listening>>

Expand_routeScanner(t) ==
  /\ tasks[t].pc = "expand"
  /\ tasks' = [tasks EXCEPT
                 ![t].methodRoutes = expandRoutesToMethods_routeScanner(tasks[t].routes),
                 ![t].pc = "clear"]
  /\ lastDispatch' = NoDispatch
  /\ UNCHANGED <<call, disk, routeHandlers, listening>>

NextRouteScanner ==
  \E t \in DOMAIN tasks : Glob(t) \/ ScanLoop_routeScanner(t) \/ Expand_routeScanner(t)

SpecRouteScanner ==
  InitScan /\ [][NextRouteScanner]_vars

----------------------------------------------------------------------------
(* The dev server's router: matchRoute and findMatchingRoute.              *)

\* arr.filter(Boolean) on an array of strings: the empty strings are dropped
filterBoolean(arr) ==
  SelectSeq(arr, LAMBDA part : part # S_empty)

\* a params object: property name -> value; a later binding of a name replaces
\* the earlier one
NoParams ==
  <<>>

setParam(params, name, value) ==
  IF \E k \in DOMAIN params : params[k].name = name
    THEN [ k \in DOMAIN params |->
             IF params[k].name = name THEN [name |-> name, value |-> value]
             ELSE params[k] ]
    ELSE Append(params, [name |-> name, value |-> value])

\* routePart.startsWith('[') && routePart.endsWith(']')
isDynamic(routePart) ==
  startsWith(routePart, <<"[">>) /\ endsWith(routePart, <<"]">>)

\* routePart.slice(1, -1)
sliceInner(routePart) ==
  SubSeq(routePart, 2, Len(routePart) - 1)

\* the loop of matchRoute over the first n segments
RECURSIVE matchParts(_, _, _)
matchParts(routeParts, requestParts, n) ==
  IF n = 0 THEN [match |-> TRUE, params |-> NoParams]
  ELSE LET before == matchParts(routeParts, requestParts, n - 1)
       IN  IF ~before.match THEN before
           ELSE IF isDynamic(routeParts[n])
             THEN [match |-> TRUE,
                   params |-> setParam(before.params, sliceInner(routeParts[n]),
                                       requestParts[n])]
           ELSE IF routeParts[n] # requestParts[n]
             THEN [match |-> FALSE, params |-> NoParams]
           ELSE before

\* mutant of matchRoute: the segment counts are not compared, a template
\* matches every path it is a prefix of
matchRoute_prefix(routePath, requestPath) ==
  LET routeParts == filterBoolean(split(routePath, "/"))
      requestParts == filterBoolean(split(requestPath, "/"))
  IN  IF Len(routeParts) > Len(requestParts)
        THEN [match |-> FALSE, params |-> NoParams]
        ELSE matchParts(routeParts, requestParts, Len(routeParts))

\* DevServer.matchRoute(routePath, requestPath)
matchRoute(routePath, requestPath) ==
  LET routeParts == filterBoolean(split(routePath, "/"))
      requestParts == filterBoolean(split(requestPath, "/"))
  IN  IF Len(routeParts) # Len(requestParts)
        THEN [match |-> FALSE, params |-> NoParams]
        ELSE matchParts(routeParts, requestParts, Len(routeParts))

\* `${method}:${route}`
routeKeyOf(method, route) ==
  method \o <<":">> \o route

\* this.routeHandlers.get(key): the handlers object stored under key, if any
hasKey(table, key) ==
  \E k \in DOMAIN table : table[k].key = key

getHandlers(table, key) ==
  table[CHOOSE k \in DOMAIN table : table[k].key = key].handlers

\* routeKey.split(':', 2)
splitKey(routeKey) ==
  LET parts == split(routeKey, ":")
  IN  SubSeq(parts, 1, IF Len(parts) < 2 THEN Len(parts) ELSE 2)

NoHandler ==
  [file |-> S_empty, exportName |-> S_empty]

NotFound ==
  [found |-> FALSE, handler |-> NoHandler, params |-> NoParams, routeKey |-> S_empty]

\* the parameter-matching loop of findMatchingRoute from entry k on
RECURSIVE matchFrom(_, _, _, _)
matchFrom(table, k, method, requestPath) ==
  IF k > Len(table) THEN NotFound
  ELSE LET pair == splitKey(table[k].key)
           routeMethod == pair[1]
           routePath == pair[2]
           routeHandlers_k == table[k].handlers
           result == matchRoute(routePath, requestPath)
       IN  IF /\ Len(pair) = 2
              /\ (routeMethod = method \/ routeMethod = S_ALL)
              /\ result.match
              /\ (method \in DOMAIN routeHandlers_k \/ S_ALL \in DOMAIN routeHandlers_k)
             THEN [found |-> TRUE,
                   handler |-> IF method \in DOMAIN routeHandlers_k
                                 THEN routeHandlers_k[method]
                                 ELSE routeHandlers_k[S_ALL],
                   params |-> result.params,
                   routeKey |-> table[k].key]
             ELSE matchFrom(table, k + 1, method, requestPath)

\* mutant of findMatchingRoute: of the entries that match by pattern the one
\* inserted last supplies the handler
findMatchingRoute_lastPattern(table, method, requestPath) ==
  LET methodKey == routeKeyOf(method, requestPath)
      hit(k) == matchFrom(table, k, method, requestPath)
      hits == { k \in DOMAIN table : hit(k).found /\ hit(k).routeKey = table[k].key }
  IN  IF hasKey(table, methodKey) /\ method \in DOMAIN getHandlers(table, methodKey)
        THEN [found |-> TRUE,
              handler |-> getHandlers(table, methodKey)[method],
              params |-> NoParams,
              routeKey |-> methodKey]
      ELSE IF hits = {} THEN NotFound
      ELSE hit(CHOOSE k \in hits : \A j \in hits : j <= k)

\* mutant of findMatchingRoute: only the exact key is looked up
findMatchingRoute_exactOnly(table, method, requestPath) ==
  LET methodKey == routeKeyOf(method, requestPath)
  IN  IF hasKey(table, methodKey) /\ method \in DOMAIN getHandlers(table, methodKey)
        THEN [found |-> TRUE,
              handler |-> getHandlers(table, methodKey)[method],
              params |-> NoParams,
              routeKey |-> methodKey]
        ELSE NotFound

\* DevServer.findMatchingRoute(method, requestPath) on the table; routeKey is
\* the key of the entry that supplied the handler
findMatchingRoute(table, method, requestPath) ==
  LET methodKey == routeKeyOf(method, requestPath)
  IN  IF hasKey(table, methodKey) /\ method \in DOMAIN getHandlers(table, methodKey)
        THEN [found |-> TRUE,
              handler |-> getHandlers(table, methodKey)[method],
              params |-> NoParams,
              routeKey |-> methodKey]
        ELSE matchFrom(table, 1, method, requestPath)

\* mutant of storeHandler: a handler already stored for the method under the
\* key is kept
storeHandler_keepFirst(table, methodRoute, handler) ==
  LET routeKey == routeKeyOf(methodRoute.method, methodRoute.route)
  IN  IF hasKey(table, routeKey)
        THEN table
        ELSE Append(table, [key |-> routeKey,
                            handlers |-> [ m \in {methodRoute.method} |-> handler ]])

\* the table after registerRoute has stored handler for methodRoute
storeHandler(table, methodRoute, handler) ==
  LET routeKey == routeKeyOf(methodRoute.method, methodRoute.route)
  IN  IF hasKey(table, routeKey)
        THEN [ k \in DOMAIN table |->
                 IF table[k].key = routeKey
                   THEN [key |-> routeKey,
                         handlers |-> [ m \in DOMAIN table[k].handlers \cup {methodRoute.method} |->
                                          IF m = methodRoute.method THEN handler
                                          ELSE table[k].handlers[m] ]]
                   ELSE table[k] ]
        ELSE Append(table, [key |-> routeKey,
                            handlers |-> [ m \in {methodRoute.method} |-> handler ]])

\* what loadHandler(file, exportName) resolves to: the export of the file as it
\* is on the disk when the bundle is built; no handler when the file or the
\* export is missing (esbuild fails and loadHandler throws)
canLoad(tree, file, exportName) ==
  file \in DOMAIN tree /\ arrayIncludes(tree[file], exportName)

loadedHandler(file, exportName) ==
  [file |-> file, exportName |-> exportName]

----------------------------------------------------------------------------
(* The dev server: start(), file changes, rescans and requests.            *)

MaxChanges == 2

MaxDevFiles == 2

F_usersActive == <<"f", "u", "n", "c", "t", "i", "o", "n", "s", "/", "a", "p", "i", "/", "u", "s", "e", "r", "s", "/", "a", "c", "t", "i", "v", "e", ".", "t", "s">>

\* the candidate files of the trees the dev server runs on
DevMenu ==
  (F_usersId :> { <<S_GET>> })
  @@ (F_usersActive :> { <<S_default>>, <<S_default, S_GET>> })
  @@ (F_usersIndex :> { <<S_GET, S_POST>> })
  @@ (F_usersCreate :> { <<S_POST>> })

DevPaths ==
  DOMAIN DevMenu

DevDisks ==
  UNION { { d \in [files -> UNION { DevMenu[f] : f \in files }] :
              \A f \in files : d[f] \in DevMenu[f] } :
            files \in { fs \in SUBSET DevPaths : Cardinality(fs) <= MaxDevFiles } }

\* the requests that are sent
RequestMethods ==
  { S_GET, S_POST }

RequestPaths ==
  { <<"/", "u", "s", "e", "r", "s", "/", "a", "c", "t", "i", "v", "e">>,
    <<"/", "u", "s", "e", "r", "s", "/", "4", "2">>,
    <<"/", "u", "s", "e", "r", "s", "/", "[", "i", "d", "]">>,
    <<"/", "u", "s", "e", "r", "s">> }

\* the synchronous run from the answer of glob to the first await of
\* scanAndRegisterRoutes: the loop of scanRoutes, expandRoutesToMethods and
\* this.routeHandlers.clear()
ScanExpandClear(t) ==
  /\ tasks[t].pc = "scan"
  /\ LET routes == scanRoutes(tasks[t].allFiles, disk)
     IN  tasks' = [tasks EXCEPT ![t].routes = routes,
                                ![t].warnings = scanWarnings(tasks[t].allFiles, disk),
                                ![t].methodRoutes = expandRoutesToMethods(routes, disk),
                                ![t].pc = "cleanup"]
  /\ routeHandlers' = <<>>
  /\ lastDispatch' = NoDispatch
  /\ UNCHANGED <<call, disk, listening>>

\* await this.cleanupOldCompiledFiles() has completed
Cleanup(t) ==
  /\ tasks[t].pc = "cleanup"
  /\ tasks' = [tasks EXCEPT ![t] = IF Len(tasks[t].methodRoutes) = 0
                                     THEN DoneTask
                                     ELSE [tasks[t] EXCEPT !.pc = "register"]]
  /\ lastDispatch' = NoDispatch
  /\ UNCHANGED <<call, disk, routeHandlers, listening>>

\* await this.registerRoute(methodRoutes[i]) has completed: loadHandler has
\* built and imported the wrapper, and the handler, if any, is stored
Register(t) ==
  /\ tasks[t].pc = "register"
  /\ LET methodRoute == tasks[t].methodRoutes[tasks[t].i]
     IN  routeHandlers' =
           IF canLoad(disk, methodRoute.file, methodRoute.exportName)
             THEN storeHandler(routeHandlers, methodRoute,
                               loadedHandler(methodRoute.file, methodRoute.exportName))
             ELSE routeHandlers
  /\ tasks' = [tasks EXCEPT ![t] = IF tasks[t].i = Len(tasks[t].methodRoutes)
                                     THEN DoneTask
                                     ELSE [tasks[t] EXCEPT !.i = tasks[t].i + 1]]
  /\ lastDispatch' = NoDispatch
  /\ UNCHANGED <<call, disk, listening>>

\* start(): once the initial scanAndRegisterRoutes() has returned, the watcher
\* is set up and the server listens
StartServer ==
  /\ ~listening
  /\ tasks[1].pc = "done"
  /\ listening' = TRUE
  /\ lastDispatch' = NoDispatch
  /\ UNCHANGED <<call, disk, tasks, routeHandlers>>

\* a route file is written (added or changed): the watcher calls
\* handleFileChange, which starts scanAndRegisterRoutes()
WriteFile ==
  /\ listening
  /\ Len(tasks) < 1 + MaxChanges
  /\ \E f \in DevPaths : \E content \in DevMenu[f] :
       /\ f \in DOMAIN disk => disk[f] # content
       /\ Cardinality(DOMAIN disk \cup {f}) <= MaxDevFiles
       /\ disk' = [ g \in DOMAIN disk \cup {f} |-> IF g = f THEN content ELSE disk[g] ]
  /\ tasks' = Append(tasks, NewTask)
  /\ lastDispatch' = NoDispatch
  /\ UNCHANGED <<call, routeHandlers, listening>>

\* a route file is removed: the watcher calls handleFileChange
Unlink ==
  /\ listening
  /\ Len(tasks) < 1 + MaxChanges
  /\ \E f \in DOMAIN disk :
       disk' = [ g \in DOMAIN disk \ {f} |-> disk[g] ]
  /\ tasks' = Append(tasks, NewTask)
  /\ lastDispatch' = NoDispatch
  /\ UNCHANGED <<call, routeHandlers, listening>>

\* handleRequest(req, res): findMatchingRoute on the table as it is now; 404
\* with { error, path } when no handler is found
HandleRequest ==
  /\ listening
  /\ \E method \in RequestMethods : \E requestPath \in RequestPaths :
       LET found == findMatchingRoute(routeHandlers, method, requestPath)
       IN  lastDispatch' =
             [served |-> TRUE, method |-> method, path |-> requestPath,
              found |-> found.found, handler |-> found.handler,
              params |-> found.params, routeKey |-> found.routeKey,
              statusCode |-> IF found.found THEN 200 ELSE 404,
              body |-> IF found.found THEN <<>>
                       ELSE <<[name |-> "error", value |-> S_RouteNotFound],
                              [name |-> "path", value |-> requestPath]>>]
  /\ UNCHANGED <<call, disk, tasks, routeHandlers, listening>>

Init ==
  /\ disk \in DevDisks
  /\ tasks = <<NewTask>>
  /\ routeHandlers = <<>>
  /\ listening = FALSE
  /\ lastDispatch = NoDispatch
  /\ call = NoCall

Next ==
  \/ \E t \in DOMAIN tasks : Glob(t) \/ ScanExpandClear(t) \/ Cleanup(t) \/ Register(t)
  \/ StartServer
  \/ WriteFile
  \/ Unlink
  \/ HandleRequest

Spec ==
  Init /\ [][Next]_vars

----------------------------------------------------------------------------
(* Vocabulary of the properties of the scanner.                            *)

\* scanRoutes() of task 1 has just returned / its expansion has just returned
Scanned ==
  tasks[1].pc = "expand"

Expanded ==
  tasks[1].pc = "clear"

SeqSum(lens) ==
  LET RECURSIVE sum(_)
      sum(k) == IF k = 0 THEN 0 ELSE lens[k] + sum(k - 1)
  IN  sum(Len(lens))

NoRepeats(arr) ==
  \A a, b \in DOMAIN arr : arr[a] = arr[b] => a = b

\* the MethodRoutes emitted for one route path, in output order
EmittedFor(methodRoutes, routePath) ==
  SelectSeq(methodRoutes, LAMBDA mr : mr.route = routePath)

\* the MethodRoutes emitted that name one file
EmittedForFile(methodRoutes, file) ==
  SelectSeq(methodRoutes, LAMBDA mr : mr.file = file)

\* what a file yields when it is scanned and expanded on its own
OwnYield(file) ==
  expandRoutesToMethods(scanRoutes(<<file>>, disk), disk)

\* the files of the tree that analyzeRouteFile turns into a RouteInfo
Included(file) ==
  /\ file \in DOMAIN disk
  /\ analyzeRouteFile(disk[file], file).tag = "ok"

OwnInfo(file) ==
  analyzeRouteFile(disk[file], file).info

\* segments of a path below the routes root, its directory and its base name
RelSegments(file) ==
  split(pathRelative(S_functionsApi, file), "/")

DirSegments(file) ==
  SubSeq(RelSegments(file), 1, Len(RelSegments(file)) - 1)

BaseName(file) ==
  replaceAtEnd(RelSegments(file)[Len(RelSegments(file))], S_dotTs)

\* '/' + d for the directory d of the file ('/' for the root)
DirRoute(file) ==
  S_slash \o join(DirSegments(file), S_slash)

\* the path of the index file of the directory of a file
IndexFileBeside(file) ==
  S_functionsApi \o S_slash
    \o join(Append(DirSegments(file), <<"i", "n", "d", "e", "x", ".", "t", "s">>), S_slash)

HasMethodExport(file) ==
  Len(methodExportsOf(disk[file])) > 0

----------------------------------------------------------------------------
(* Properties of route discovery and method expansion (under SpecScan).    *)

\* C3: for a RouteInfo with more than one contributing file, the MethodRoutes
\* emitted for it are exactly the union of what each of its files yields on
\* its own, and every emitted MethodRoute names a file of the route that
\* itself exports exportName: no file inherits a method from a sibling.
MultiFileAttribution ==
  Expanded =>
    \A i \in DOMAIN tasks[1].routes :
      LET route == tasks[1].routes[i]
          files == filesOf(route)
          emitted == EmittedFor(tasks[1].methodRoutes, route.route)
      IN  Len(files) > 1 =>
            /\ Range(emitted) = UNION { Range(OwnYield(files[k])) : k \in DOMAIN files }
            /\ Len(emitted) = SeqSum([ k \in DOMAIN files |-> Len(OwnYield(files[k])) ])
            /\ \A n \in DOMAIN emitted :
                 /\ arrayIncludes(files, emitted[n].file)
                 /\ arrayIncludes(disk[emitted[n].file], emitted[n].exportName)

\* C3 witness: index.ts exporting GET and create.ts exporting POST were merged
\* into /users and expanded to exactly GET -> index.ts and POST -> create.ts.
MultiFileAttributionWitness ==
  /\ Expanded
  /\ DOMAIN disk = {F_usersIndex, F_usersCreate}
  /\ disk[F_usersIndex] = <<S_GET>>
  /\ disk[F_usersCreate] = <<S_POST>>
  /\ Len(tasks[1].routes) = 1
  /\ Len(filesOf(tasks[1].routes[1])) = 2
  /\ Range(tasks[1].methodRoutes) =
       { [file |-> F_usersIndex, route |-> tasks[1].routes[1].route,
          method |-> S_GET, exportName |-> S_GET],
         [file |-> F_usersCreate, route |-> tasks[1].routes[1].route,
          method |-> S_POST, exportName |-> S_POST] }

\* C4: in the result of a single scanRoutes call no two RouteInfo records have
\* the same route (so the files of one route path are together in one record).
\* Checked for the scanRoutes of route-scanner.ts under SpecRouteScanner.
OneRecordPerRoute ==
  Scanned =>
    \A a, b \in DOMAIN tasks[1].routes :
      tasks[1].routes[a].route = tasks[1].routes[b].route => a = b

\* The same property for the scanRoutes of the merging scanner (SpecScan), with
\* the placement of the files: every included file is in exactly one record,
\* the one of its route path.
RouteUniqueness ==
  Scanned =>
    LET routes == tasks[1].routes
    IN  /\ \A a, b \in DOMAIN routes : routes[a].route = routes[b].route => a = b
        /\ \A f \in DOMAIN disk :
             Included(f) =>
               /\ \E a \in DOMAIN routes :
                    /\ routes[a].route = OwnInfo(f).route
                    /\ arrayIncludes(filesOf(routes[a]), f)
               /\ \A a \in DOMAIN routes :
                    arrayIncludes(filesOf(routes[a]), f) => routes[a].route = OwnInfo(f).route

\* the included files of the tree whose route path is routePath
Contributing(routePath) ==
  { f \in DOMAIN disk : Included(f) /\ OwnInfo(f).route = routePath }

\* C5: the record of a route with k >= 1 contributing files has as methods the
\* duplicate-free union of the files' detected methods, as exports the
\* duplicate-free union of their export names, as hasDefaultExport the OR of
\* theirs, and as file each contributing path once (a string when k = 1, a
\* list when k >= 2).
MergeContent ==
  Scanned =>
    \A i \in DOMAIN tasks[1].routes :
      LET route == tasks[1].routes[i]
          K == Contributing(route.route)
      IN  /\ K # {}
          /\ Range(route.methods) = UNION { Range(OwnInfo(f).methods) : f \in K }
          /\ NoRepeats(route.methods)
          /\ Range(route.exports) = UNION { Range(disk[f]) : f \in K }
          /\ NoRepeats(route.exports)
          /\ route.hasDefaultExport = (\E f \in K : hasDefaultExportSymbol(disk[f]))
          /\ route.file.isArray = (Cardinality(K) >= 2)
          /\ Range(filesOf(route)) = K
          /\ NoRepeats(filesOf(route))

\* C5 witness: two files sharing the export POST, one of them with a default
\* export, were merged into one record.
MergeContentWitness ==
  /\ Scanned
  /\ F_usersIndex \in DOMAIN disk
  /\ F_usersCreate \in DOMAIN disk
  /\ disk[F_usersIndex] = <<S_GET, S_POST>>
  /\ disk[F_usersCreate] = <<S_default, S_POST>>
  /\ \E i \in DOMAIN tasks[1].routes :
       /\ {F_usersIndex, F_usersCreate} \subseteq Range(filesOf(tasks[1].routes[i]))
       /\ tasks[1].routes[i].hasDefaultExport

\* a scan result as a set of records of sets
AsSets(routes) ==
  { [route |-> routes[i].route,
     methods |-> Range(routes[i].methods),
     exports |-> Range(routes[i].exports),
     hasDefaultExport |-> routes[i].hasDefaultExport,
     files |-> Range(filesOf(routes[i]))] : i \in DOMAIN routes }

\* one fixed listing order of a tree
CanonicalOrder(files) ==
  CHOOSE order \in GlobOrders(files) : TRUE

\* C6: whatever the order in which glob lists the files of a tree, scanRoutes
\* returns the same routes with the same methods, exports, hasDefaultExport
\* and contributing files, as sets: the result for every listing order equals
\* the result for one fixed order of the same tree.
OrderIndependence ==
  Scanned =>
    AsSets(tasks[1].routes) = AsSets(scanRoutes(CanonicalOrder(DOMAIN disk), disk))

\* C6 witness: a tree of three files that merge into one route was scanned in
\* an order in which the index file did not come first.
OrderIndependenceWitness ==
  /\ Scanned
  /\ DOMAIN disk = {F_usersIndex, F_usersCreate, F_users}
  /\ disk[F_users] = <<S_handler>>
  /\ disk[F_usersCreate] = <<S_default>>
  /\ tasks[1].allFiles[1] = F_users
  /\ tasks[1].allFiles[3] = F_usersIndex
  /\ Len(tasks[1].routes) = 1

\* C7: an included file d/index.ts has route '/' + d, and the root index.ts
\* has route '/', whatever the segments of d are named.
IndexCollapsing ==
  Scanned =>
    \A i \in DOMAIN tasks[1].routes :
      \A k \in DOMAIN filesOf(tasks[1].routes[i]) :
        LET file == filesOf(tasks[1].routes[i])[k]
        IN  BaseName(file) = <<"i", "n", "d", "e", "x">> =>
              tasks[1].routes[i].route = DirRoute(file)

\* C8: a file whose base name is, case-insensitively, one of create, update,
\* delete, edit, new has the route of its directory, which is the route of
\* that directory's index file; a file with any other base name than index
\* keeps its base name as the last route segment.
DirectoryCollapsing ==
  Scanned =>
    \A i \in DOMAIN tasks[1].routes :
      \A k \in DOMAIN filesOf(tasks[1].routes[i]) :
        LET file == filesOf(tasks[1].routes[i])[k]
            route == tasks[1].routes[i].route
        IN  IF arrayIncludes(methodFiles, toLowerCase(BaseName(file)))
              THEN /\ route = DirRoute(file)
                   /\ route = routePathOf(IndexFileBeside(file))
            ELSE IF BaseName(file) # <<"i", "n", "d", "e", "x">>
              THEN route = S_slash \o join(Append(DirSegments(file), BaseName(file)), S_slash)
            ELSE TRUE

\* C9: for a RouteInfo with exactly one contributing file, exactly one
\* MethodRoute is emitted per element of its methods, carrying that file, the
\* route, the method and an export of the file that implements the method.
SingleFileExpansion ==
  Expanded =>
    \A i \in DOMAIN tasks[1].routes :
      LET route == tasks[1].routes[i]
          emitted == EmittedFor(tasks[1].methodRoutes, route.route)
      IN  Len(filesOf(route)) = 1 =>
            /\ Len(emitted) = Len(route.methods)
            /\ \A m \in DOMAIN route.methods :
                 \E n \in DOMAIN emitted : emitted[n].method = route.methods[m]
            /\ \A n \in DOMAIN emitted :
                 /\ emitted[n].file = filesOf(route)[1]
                 /\ arrayIncludes(route.methods, emitted[n].method)
                 /\ arrayIncludes(disk[emitted[n].file], emitted[n].exportName)
                 /\ \/ toUpperCase(emitted[n].exportName) = emitted[n].method
                    \/ /\ emitted[n].method = S_ALL
                       /\ emitted[n].exportName \in {S_default, S_handler}

\* C10: a file with no HTTP-method export but with a default export or an
\* export named handler scans to methods = {ALL} and expands to exactly one
\* MethodRoute, with method ALL and exportName 'default' when a default export
\* exists and 'handler' otherwise; a file with an HTTP-method export never
\* yields an ALL route.
FallbackToAll ==
  Expanded =>
    \A file \in DOMAIN disk :
      LET own == EmittedForFile(tasks[1].methodRoutes, file)
      IN  IF HasMethodExport(file)
            THEN \A n \in DOMAIN own : own[n].method # S_ALL
          ELSE IF hasDefaultExportSymbol(disk[file]) \/ arrayIncludes(disk[file], S_handler)
            THEN /\ OwnInfo(file).methods = <<S_ALL>>
                 /\ \E i \in DOMAIN tasks[1].routes :
                      /\ arrayIncludes(filesOf(tasks[1].routes[i]), file)
                      /\ arrayIncludes(tasks[1].routes[i].methods, S_ALL)
                 /\ own = <<[file |-> file, route |-> OwnInfo(file).route,
                             method |-> S_ALL,
                             exportName |-> IF hasDefaultExportSymbol(disk[file])
                                              THEN S_default ELSE S_handler]>>
          ELSE TRUE

\* C10 witness: a tree was expanded in which one file has only a default
\* export, one has only a handler export and one has a default export beside
\* POST, two of them merged into one route.
FallbackToAllWitness ==
  /\ Expanded
  /\ DOMAIN disk = {F_index, F_users, F_usersCreate}
  /\ disk[F_index] = <<S_default>>
  /\ disk[F_users] = <<S_handler>>
  /\ disk[F_usersCreate] = <<S_default, S_POST>>
  /\ Len(tasks[1].methodRoutes) = 3


----------------------------------------------------------------------------
(* Properties of the dev server (under Spec).                              *)

\* the entries of the table whose template is literally the request path and
\* that accept the method: registered under it or under ALL
StaticEntries(table, method, requestPath) ==
  { k \in DOMAIN table :
      /\ Len(splitKey(table[k].key)) = 2
      /\ splitKey(table[k].key)[2] = requestPath
      /\ splitKey(table[k].key)[1] \in { method, S_ALL } }

\* C1: exact beats pattern. Whenever the table holds a route whose template is
\* literally the request path and that accepts the request's method (its own
\* method or ALL), the dispatch resolves to an entry with that template, never
\* to a bracket-parameter entry, whatever the order of the table.
ExactBeatsPattern ==
  (lastDispatch.served
     /\ StaticEntries(routeHandlers, lastDispatch.method, lastDispatch.path) # {})
    => /\ lastDispatch.found
       /\ splitKey(lastDispatch.routeKey)[2] = lastDispatch.path

\* a call of scanAndRegisterRoutes() that has cleared the table and has not yet
\* stored its last handler
Rebuilding(t) ==
  tasks[t].pc \in { "cleanup", "register" }

\* the MethodRoutes such a call is still to register and whose handler loads
Pending(t) ==
  { j \in tasks[t].i .. Len(tasks[t].methodRoutes) :
      canLoad(disk, tasks[t].methodRoutes[j].file, tasks[t].methodRoutes[j].exportName) }

\* C2: the table rebuild is atomic with respect to dispatch. No request is
\* dispatched on a table that a rescan has cleared and not yet repopulated:
\* the table a dispatch sees lacks no entry that a running rescan is still to
\* store.
AtomicRebuild ==
  lastDispatch.served =>
    \A t \in DOMAIN tasks :
      Rebuilding(t) =>
        \A j \in Pending(t) :
          LET methodRoute == tasks[t].methodRoutes[j]
              routeKey == routeKeyOf(methodRoute.method, methodRoute.route)
          IN  /\ hasKey(routeHandlers, routeKey)
              /\ methodRoute.method \in DOMAIN getHandlers(routeHandlers, routeKey)

----------------------------------------------------------------------------
(* matchRoute taken on its own (SpecMatch): templates and request paths    *)
(* built from up to MaxSegments segments, empty segments included.         *)

MaxSegments == 2

\* segments a route template is built from: static, [name], and a name whose
\* bracket is not closed
TemplateSegments ==
  { <<"u", "s", "e", "r", "s">>, <<"[", "i", "d", "]">>, <<"[", "n", "]">>,
    <<"[", "i", "d">>, S_empty }

\* segments a request path is built from
PathSegments ==
  { <<"u", "s", "e", "r", "s">>, <<"4", "2">>, <<"[", "i", "d">>, S_empty }

SegmentLists(segments) ==
  UNION { [1..n -> segments] : n \in 0..MaxSegments }

\* '/' + segments.join('/')
pathOf(segments) ==
  S_slash \o join(segments, S_slash)

\* a call of matchRoute with its arguments, before it has run
MatchCalls ==
  { [fn |-> "matchRoute", done |-> FALSE,
     routeSegments |-> routeSegments,
     requestSegments |-> requestSegments,
     routePath |-> pathOf(routeSegments),
     requestPath |-> pathOf(requestSegments),
     result |-> [match |-> FALSE, params |-> NoParams]] :
       routeSegments \in SegmentLists(TemplateSegments),
       requestSegments \in SegmentLists(PathSegments) }

InitMatch ==
  /\ disk = <<>>
  /\ tasks = <<>>
  /\ routeHandlers = <<>>
  /\ listening = FALSE
  /\ lastDispatch = NoDispatch
  /\ call \in MatchCalls

\* this.matchRoute(routePath, requestPath)
MatchRoute ==
  /\ call.fn = "matchRoute"
  /\ ~call.done
  /\ call' = [call EXCEPT !.done = TRUE,
                          !.result = matchRoute(call.routePath, call.requestPath)]
  /\ UNCHANGED <<disk, tasks, routeHandlers, listening, lastDispatch>>

NextMatch ==
  MatchRoute

SpecMatch ==
  InitMatch /\ [][NextMatch]_vars

\* the non-empty segments a path was built from
NonEmpty(segments) ==
  SelectSeq(segments, LAMBDA seg : seg # S_empty)

\* a segment of the form [name]
IsParam(seg) ==
  Len(seg) >= 2 /\ seg[1] = "[" /\ seg[Len(seg)] = "]"

ParamName(seg) ==
  SubSeq(seg, 2, Len(seg) - 1)

\* same number of segments, and every segment not of the form [name] equal
SegmentsAgree(rt, rq) ==
  /\ Len(rt) = Len(rq)
  /\ \A p \in DOMAIN rt : ~IsParam(rt[p]) => rt[p] = rq[p]

\* params[name], or undefined
paramValue(params, name) ==
  IF \E k \in DOMAIN params : params[k].name = name
    THEN params[CHOOSE k \in DOMAIN params : params[k].name = name].value
    ELSE Undefined

\* C11 (as stated): matchRoute reports a match exactly when the segments
\* agree, and on a match params maps each [name] of the template to the
\* request segment at its position, which is never empty.
PatternMatching ==
  (call.fn = "matchRoute" /\ call.done) =>
    LET rt == NonEmpty(call.routeSegments)
        rq == NonEmpty(call.requestSegments)
    IN  /\ call.result.match <=> SegmentsAgree(rt, rq)
        /\ call.result.match =>
             \A p \in DOMAIN rt :
               IsParam(rt[p]) =>
                 /\ paramValue(call.result.params, ParamName(rt[p])) = rq[p]
                 /\ rq[p] # S_empty

\* C11 (amended): matchRoute reports a match exactly when the segments agree,
\* and on a match params has one binding per parameter name of the template,
\* to the non-empty request segment at the last position carrying that name
\* (at its position when the names of the template are distinct).
PatternMatchingLastBinding ==
  (call.fn = "matchRoute" /\ call.done) =>
    LET rt == NonEmpty(call.routeSegments)
        rq == NonEmpty(call.requestSegments)
        params == call.result.params
    IN  /\ call.result.match <=> SegmentsAgree(rt, rq)
        /\ call.result.match =>
             /\ \A p \in DOMAIN rt :
                  (IsParam(rt[p])
                     /\ \A q \in DOMAIN rt : q > p => rt[q] # rt[p]) =>
                    /\ paramValue(params, ParamName(rt[p])) = rq[p]
                    /\ rq[p] # S_empty
             /\ { params[k].name : k \in DOMAIN params } =
                  { ParamName(rt[p]) : p \in { q \in DOMAIN rt : IsParam(rt[q]) } }
             /\ \A j, k \in DOMAIN params : params[j].name = params[k].name => j = k
        /\ ~call.result.match => call.result.params = NoParams

\* C11 witness: /users/[id] matched /users/42 with id = 42
PatternMatchingWitness ==
  /\ call.fn = "matchRoute"
  /\ call.done
  /\ call.routePath = <<"/", "u", "s", "e", "r", "s", "/", "[", "i", "d", "]">>
  /\ call.requestPath = <<"/", "u", "s", "e", "r", "s", "/", "4", "2">>
  /\ call.result.match
  /\ call.result.params = <<[name |-> <<"i", "d">>, value |-> <<"4", "2">>]>>

----------------------------------------------------------------------------
(* Dispatch taken on its own (SpecDispatch): requests against every table  *)
(* that up to MaxRoutes registrations can build.                           *)

MaxRoutes == 2

R_usersId == <<"/", "u", "s", "e", "r", "s", "/", "[", "i", "d", "]">>
R_usersActive == <<"/", "u", "s", "e", "r", "s", "/", "a", "c", "t", "i", "v", "e">>
R_users == <<"/", "u", "s", "e", "r", "s">>

\* the MethodRoutes that are registered
DispatchRoutes ==
  { [file |-> F_usersId, route |-> R_usersId, method |-> S_GET, exportName |-> S_GET],
    [file |-> F_usersId, route |-> R_usersId, method |-> S_ALL, exportName |-> S_default],
    [file |-> F_usersActive, route |-> R_usersActive, method |-> S_GET, exportName |-> S_GET],
    [file |-> F_usersActive, route |-> R_usersActive, method |-> S_ALL, exportName |-> S_default],
    [file |-> F_usersIndex, route |-> R_users, method |-> S_GET, exportName |-> S_GET],
    [file |-> F_usersIndex, route |-> R_users, method |-> S_POST, exportName |-> S_POST],
    [file |-> F_usersCreate, route |-> R_users, method |-> S_POST, exportName |-> S_POST] }

\* the table after registerRoute has stored the handlers of methodRoutes in turn
RECURSIVE registerAll(_)
registerAll(methodRoutes) ==
  IF methodRoutes = <<>> THEN <<>>
  ELSE LET last == methodRoutes[Len(methodRoutes)]
       IN  storeHandler(registerAll(SubSeq(methodRoutes, 1, Len(methodRoutes) - 1)),
                        last, loadedHandler(last.file, last.exportName))

DispatchTables ==
  { registerAll(methodRoutes) :
      methodRoutes \in UNION { [1..n -> DispatchRoutes] : n \in 0..MaxRoutes } }

InitDispatch ==
  /\ disk = <<>>
  /\ tasks = <<>>
  /\ routeHandlers \in DispatchTables
  /\ listening = TRUE
  /\ lastDispatch = NoDispatch
  /\ call = NoCall

NextDispatch ==
  HandleRequest

SpecDispatch ==
  InitDispatch /\ [][NextDispatch]_vars

\* the route an entry was registered under with method m: its key after 'm:'
RegisteredRoute(entry, m) ==
  SubSeq(entry.key, Len(m) + 2, Len(entry.key))

\* the handlers of the table registered under method m or under ALL for a
\* route template that matches requestPath
AcceptingHandlers(table, method, requestPath) ==
  UNION { { table[k].handlers[m] :
              m \in { m0 \in DOMAIN table[k].handlers \cap { method, S_ALL } :
                        matchRoute(RegisteredRoute(table[k], m0), requestPath).match } } :
          k \in DOMAIN table }

bodyValue(body, name) ==
  IF \E k \in DOMAIN body : body[k].name = name
    THEN body[CHOOSE k \in DOMAIN body : body[k].name = name].value
    ELSE Undefined

\* C13: a request that matches no registered entry is answered with status
\* 404 and a route-not-found body that carries the attempted method and the
\* attempted path; no handler is invoked.
NotFoundResult ==
  (lastDispatch.served
     /\ AcceptingHandlers(routeHandlers, lastDispatch.method, lastDispatch.path) = {})
    => /\ ~lastDispatch.found
       /\ lastDispatch.handler = NoHandler
       /\ lastDispatch.statusCode = 404
       /\ bodyValue(lastDispatch.body, "error") = S_RouteNotFound
       /\ bodyValue(lastDispatch.body, "path") = lastDispatch.path
       /\ bodyValue(lastDispatch.body, "method") = lastDispatch.method

----------------------------------------------------------------------------
(* Properties of the rescans of the dev server (under Spec).               *)

\* every call of scanAndRegisterRoutes() started so far has returned
AllRescansDone ==
  \A t \in DOMAIN tasks : tasks[t].pc = "done"

\* what a scan and expansion of the tree as it is now yields
CurrentMethodRoutes ==
  expandRoutesToMethods(scanRoutes(CanonicalOrder(DOMAIN disk), disk), disk)

\* C14: full replacement. Once every rescan started so far has finished, the
\* table holds only entries produced by the scan of the most recently started
\* rescan, which is a scan of the tree as it is now (every change of the tree
\* starts a rescan): no entry of an earlier cycle survives.
FullReplacement ==
  (listening /\ Len(tasks) > 1 /\ AllRescansDone) =>
    \A k \in DOMAIN routeHandlers :
      \A m \in DOMAIN routeHandlers[k].handlers :
        \E n \in DOMAIN CurrentMethodRoutes :
          /\ routeKeyOf(CurrentMethodRoutes[n].method, CurrentMethodRoutes[n].route)
               = routeHandlers[k].key
          /\ CurrentMethodRoutes[n].method = m
          /\ loadedHandler(CurrentMethodRoutes[n].file, CurrentMethodRoutes[n].exportName)
               = routeHandlers[k].handlers[m]

\* C15: rescans are serialized. At most one call of scanAndRegisterRoutes()
\* stands between its clear and its last registration at any time.
SerializedRescans ==
  Cardinality({ t \in DOMAIN tasks : Rebuilding(t) }) <= 1

----------------------------------------------------------------------------
(* The scanner on trees with files that fail or are skipped                *)
(* (SpecScanErrors): a path that does not contain 'functions/api', files   *)
(* without exports, and files removed between glob and the loop.           *)

\* a file listed with Windows separators: its path does not contain
\* 'functions/api'
F_winPing == <<"f", "u", "n", "c", "t", "i", "o", "n", "s", "\\", "a", "p", "i", "\\", "p", "i", "n", "g", ".", "t", "s">>

ErrorMenu ==
  (F_winPing :> { <<S_GET>>, <<>> })
  @@ (F_users :> { <<>>, <<S_handler>> })
  @@ (F_usersIndex :> { <<S_GET>> })
  @@ (F_usersCreate :> { <<S_POST>>, <<>> })

ErrorDisks ==
  UNION { { d \in [files -> UNION { ErrorMenu[f] : f \in files }] :
              \A f \in files : d[f] \in ErrorMenu[f] } :
            files \in { fs \in SUBSET DOMAIN ErrorMenu : Cardinality(fs) <= MaxFiles } }

InitScanErrors ==
  /\ disk \in ErrorDisks
  /\ tasks = <<NewTask>>
  /\ routeHandlers = <<>>
  /\ listening = FALSE
  /\ lastDispatch = NoDispatch
  /\ call = NoCall

\* a file that glob has listed is removed before the loop reads it
RemoveAfterGlob(t) ==
  /\ tasks[t].pc = "scan"
  /\ \E f \in DOMAIN disk :
       disk' = [ g \in DOMAIN disk \ {f} |-> disk[g] ]
  /\ UNCHANGED <<tasks, routeHandlers, listening, lastDispatch, call>>

NextScanErrors ==
  \E t \in DOMAIN tasks : Glob(t) \/ RemoveAfterGlob(t) \/ ScanLoop(t) \/ Expand(t)

SpecScanErrors ==
  InitScanErrors /\ [][NextScanErrors]_vars

\* a file with at least one export whose path is not under the routes root
Unsupported(file) ==
  /\ file \in DOMAIN disk
  /\ Len(disk[file]) > 0
  /\ ~includes(file, S_functionsApi)

\* a file with no named export and no default export
EmptyFile(file) ==
  file \in DOMAIN disk /\ disk[file] = <<>>

\* C16: unsupported path is a hard error. If a file with at least one export
\* whose path does not lie under the routes root reaches the analyzer, the
\* scanRoutes call fails instead of returning a result: no call that such a
\* file reached has returned.
UnsupportedPathFails ==
  Scanned => \A k \in DOMAIN tasks[1].allFiles : ~Unsupported(tasks[1].allFiles[k])

\* C17: graceful degradation. When reading or analyzing some listed files
\* fails, scanRoutes returns, and its result is exactly the scan of the listing
\* without the failing files.
GracefulDegradation ==
  Scanned =>
    /\ tasks[1].routes =
         scanRoutes(SelectSeq(tasks[1].allFiles,
                              LAMBDA file : ~iterationThrows(file, disk)), disk)
    /\ \A k \in DOMAIN tasks[1].allFiles :
         iterationThrows(tasks[1].allFiles[k], disk) =>
           /\ arrayIncludes(tasks[1].warnings, tasks[1].allFiles[k])
           /\ \A i \in DOMAIN tasks[1].routes :
                ~arrayIncludes(filesOf(tasks[1].routes[i]), tasks[1].allFiles[k])

\* C17 witness: a listing with a removed file before two valid files that
\* merge was scanned into the one route of the valid files.
GracefulDegradationWitness ==
  /\ Scanned
  /\ Len(tasks[1].allFiles) = 3
  /\ tasks[1].allFiles[2] \notin DOMAIN disk
  /\ DOMAIN disk = {F_usersIndex, F_usersCreate}
  /\ disk[F_usersCreate] = <<S_POST>>
  /\ tasks[1].allFiles[1] \in DOMAIN disk
  /\ Len(tasks[1].warnings) = 1
  /\ Len(tasks[1].routes) = 1
  /\ Len(filesOf(tasks[1].routes[1])) = 2

\* C18: exclusion of empty files. A file with no named export and no default
\* export gives no record, no file entry in a merged record and no error, and
\* the result is the scan of the listing without it.
EmptyFilesExcluded ==
  Scanned =>
    /\ tasks[1].routes =
         scanRoutes(SelectSeq(tasks[1].allFiles, LAMBDA file : ~EmptyFile(file)), disk)
    /\ \A k \in DOMAIN tasks[1].allFiles :
         EmptyFile(tasks[1].allFiles[k]) =>
           /\ ~arrayIncludes(tasks[1].warnings, tasks[1].allFiles[k])
           /\ \A i \in DOMAIN tasks[1].routes :
                ~arrayIncludes(filesOf(tasks[1].routes[i]), tasks[1].allFiles[k])

\* C18 witness: create.ts without exports beside index.ts exporting GET was
\* scanned into the single-file record of index.ts.
EmptyFilesExcludedWitness ==
  /\ Scanned
  /\ DOMAIN disk = {F_usersIndex, F_usersCreate}
  /\ disk[F_usersCreate] = <<>>
  /\ Len(tasks[1].allFiles) = 2
  /\ Len(tasks[1].routes) = 1
  /\ tasks[1].routes[1].file = fileString(F_usersIndex)

----------------------------------------------------------------------------
(* The subscriber scanner taken on its own (SpecSubscribers).              *)

F_userCreated == <<"f", "u", "n", "c", "t", "i", "o", "n", "s", "/", "s", "u", "b", "s", "c", "r", "i", "b", "e", "r", "s", "/", "u", "s", "e", "r", "-", "c", "r", "e", "a", "t", "e", "d", ".", "t", "s">>
F_billingInvoice == <<"f", "u", "n", "c", "t", "i", "o", "n", "s", "/", "s", "u", "b", "s", "c", "r", "i", "b", "e", "r", "s", "/", "b", "i", "l", "l", "i", "n", "g", "/", "i", "n", "v", "o", "i", "c", "e", ".", "t", "s">>
F_billingBackslashInvoice == <<"f", "u", "n", "c", "t", "i", "o", "n", "s", "/", "s", "u", "b", "s", "c", "r", "i", "b", "e", "r", "s", "/", "b", "i", "l", "l", "i", "n", "g", "\\", "i", "n", "v", "o", "i", "c", "e", ".", "t", "s">>
F_emptySubscriber == <<"f", "u", "n", "c", "t", "i", "o", "n", "s", "/", "s", "u", "b", "s", "c", "r", "i", "b", "e", "r", "s", "/", "e", "m", "p", "t", "y", ".", "t", "s">>
N_billingInvoice == <<"b", "i", "l", "l", "i", "n", "g", "/", "i", "n", "v", "o", "i", "c", "e">>

\* the candidate subscriber files; billing\invoice.ts is one file whose name
\* holds a backslash
SubscriberMenu ==
  (F_userCreated :> { <<S_listen>> })
  @@ (F_billingInvoice :> { <<S_listen>>, <<S_default>> })
  @@ (F_billingBackslashInvoice :> { <<S_listen>> })
  @@ (F_emptySubscriber :> { <<>> })

SubscriberDisks ==
  UNION { { d \in [files -> UNION { SubscriberMenu[f] : f \in files }] :
              \A f \in files : d[f] \in SubscriberMenu[f] } :
            files \in { fs \in SUBSET DOMAIN SubscriberMenu : Cardinality(fs) <= MaxFiles } }

\* one call of scanSubscribers()
NewSubscriberTask ==
  [pc |-> "glob", allFiles |-> <<>>, subscribers |-> <<>>]

InitSubscribers ==
  /\ disk \in SubscriberDisks
  /\ tasks = <<NewSubscriberTask>>
  /\ routeHandlers = <<>>
  /\ listening = FALSE
  /\ lastDispatch = NoDispatch
  /\ call = NoCall

\* const files = await glob('functions/subscribers/**/*.ts')
GlobSubscribers(t) ==
  /\ tasks[t].pc = "glob"
  /\ \E order \in GlobOrders(DOMAIN disk) :
       tasks' = [tasks EXCEPT ![t].allFiles = order, ![t].pc = "scan"]
  /\ UNCHANGED <<disk, routeHandlers, listening, lastDispatch, call>>

\* the loop of scanSubscribers over allFiles and its return
ScanSubscribers(t) ==
  /\ tasks[t].pc = "scan"
  /\ tasks' = [tasks EXCEPT ![t].subscribers = scanSubscribers(tasks[t].allFiles, disk),
                            ![t].pc = "returned"]
  /\ UNCHANGED <<disk, routeHandlers, listening, lastDispatch, call>>

NextSubscribers ==
  \E t \in DOMAIN tasks : GlobSubscribers(t) \/ RemoveAfterGlob(t) \/ ScanSubscribers(t)

SpecSubscribers ==
  InitSubscribers /\ [][NextSubscribers]_vars

\* the listed subscriber files that exist and have a default or named export
SubscriberFiles(allFiles) ==
  SelectSeq(allFiles, LAMBDA file : file \in DOMAIN disk /\ disk[file] # <<>>)

\* the path of a file below the subscribers root, extension removed, with '/'
\* as the separator
SubscriberName(file) ==
  LET below == SubSeq(file, Len(S_functionsSubscribers) + 2, Len(file))
      stem == SubSeq(below, 1, Len(below) - 3)
  IN  [ i \in DOMAIN stem |-> IF stem[i] = "\\" THEN "/" ELSE stem[i] ]

\* C19: scanSubscribers returns exactly one record per subscriber file that
\* has a default export or a named export, in listing order, named by the
\* file's path below the subscribers root without .ts and with '/' as the
\* separator; records are never merged, so files with the same name all appear.
SubscriberScan ==
  tasks[1].pc = "returned" =>
    LET files == SubscriberFiles(tasks[1].allFiles)
        subscribers == tasks[1].subscribers
    IN  /\ Len(subscribers) = Len(files)
        /\ \A k \in DOMAIN files :
             /\ subscribers[k].file = files[k]
             /\ subscribers[k].name = SubscriberName(files[k])
             /\ subscribers[k].exports = disk[files[k]]
             /\ subscribers[k].hasDefaultExport = (S_default \in Range(disk[files[k]]))

\* C19 witness: billing/invoice.ts and billing\invoice.ts were scanned into
\* two records that are both named billing/invoice.
SubscriberScanWitness ==
  /\ tasks[1].pc = "returned"
  /\ Len(tasks[1].subscribers) = 2
  /\ tasks[1].subscribers[1].name = N_billingInvoice
  /\ tasks[1].subscribers[2].name = N_billingInvoice
  /\ tasks[1].subscribers[1].file # tasks[1].subscribers[2].file

----------------------------------------------------------------------------
(* extractRouteInfo taken on its own (SpecExtract): names P + '/route-' + m *)
(* for paths P of up to MaxSegments segments.                              *)

\* segments of P: static ones, and dynamic ones written [x] or {x}
NameSegments ==
  { <<"u", "s", "e", "r", "s">>, <<"r", "o", "u", "t", "e", "s">>,
    <<"u", "s", "e", "r", "-", "i", "t", "e", "m", "s">>,
    <<"[", "i", "d", "]">>, <<"{", "s", "l", "u", "g", "}">> }

NameMethods ==
  { <<"g", "e", "t">>, <<"p", "o", "s", "t">>, <<"d", "e", "l", "e", "t", "e">> }

\* P: '' or '/' + segments.join('/')
builtPath(segments) ==
  IF segments = <<>> THEN S_empty ELSE S_slash \o join(segments, S_slash)

ExtractCalls ==
  { [fn |-> "extractRouteInfo", done |-> FALSE,
     segments |-> segments,
     m |-> m,
     name |-> builtPath(segments) \o S_slashRoute \o <<"-">> \o m,
     result |-> [path |-> S_empty, pathPattern |-> S_empty, method |-> S_empty,
                 functionName |-> S_empty, handlerFunction |-> S_empty,
                 paramNames |-> <<>>]] :
       segments \in SegmentLists(NameSegments \ {S_empty}), m \in NameMethods }

InitExtract ==
  /\ disk = <<>>
  /\ tasks = <<>>
  /\ routeHandlers = <<>>
  /\ listening = FALSE
  /\ lastDispatch = NoDispatch
  /\ call \in ExtractCalls

\* extractRouteInfo([{ name }])[0]
ExtractRouteInfo ==
  /\ call.fn = "extractRouteInfo"
  /\ ~call.done
  /\ call' = [call EXCEPT !.done = TRUE, !.result = extractRouteInfo(call.name)]
  /\ UNCHANGED <<disk, tasks, routeHandlers, listening, lastDispatch>>

NextExtract ==
  ExtractRouteInfo

SpecExtract ==
  InitExtract /\ [][NextExtract]_vars

\* a segment written [x] or {x}, and its x
IsDynamicSegment(seg) ==
  /\ Len(seg) >= 3
  /\ \/ seg[1] = "[" /\ seg[Len(seg)] = "]"
     \/ seg[1] = "{" /\ seg[Len(seg)] = "}"

\* P with every [x] or {x} replaced by :x
ColonPath(segments) ==
  IF segments = <<>> THEN S_slash
  ELSE S_slash \o join([ k \in DOMAIN segments |->
                           IF IsDynamicSegment(segments[k])
                             THEN <<":">> \o ParamName(segments[k])
                             ELSE segments[k] ], S_slash)

\* the names of the dynamic segments in the order they occur in P
NamesInOrder(segments) ==
  LET dynamic == SelectSeq(segments, IsDynamicSegment)
  IN  [ k \in DOMAIN dynamic |-> ParamName(dynamic[k]) ]

\* C20: extractRouteInfo maps the name P + '/route-' + m to path = P ('/' when
\* P is empty), method = uppercase m, pathPattern = P with every [x] or {x}
\* replaced by :x, and paramNames = the names in the order they occur in P.
ExtractRouteInfoMapping ==
  (call.fn = "extractRouteInfo" /\ call.done) =>
    /\ call.result.path = (IF call.segments = <<>> THEN S_slash ELSE builtPath(call.segments))
    /\ call.result.method = toUpperCase(call.m)
    /\ call.result.pathPattern = ColonPath(call.segments)
    /\ call.result.paramNames = NamesInOrder(call.segments)

----------------------------------------------------------------------------
(* The deployment stack: extractRouteAndMethod decodes the name of a       *)
(* function directory (SpecRouteAndMethod).                                *)

S_ANY == <<"A", "N", "Y">>

\* const httpMethods = ['get', 'post', 'put', 'patch', 'delete', 'head', 'options']
lowerHttpMethods ==
  <<<<"g", "e", "t">>, <<"p", "o", "s", "t">>, <<"p", "u", "t">>,
    <<"p", "a", "t", "c", "h">>, <<"d", "e", "l", "e", "t", "e">>,
    <<"h", "e", "a", "d">>, <<"o", "p", "t", "i", "o", "n", "s">>>>

\* `-${method}`
methodSuffix(method) ==
  <<"-">> \o method

\* extractRouteAndMethod(fullRoute): the for loop returns at the first method of
\* httpMethods whose suffix ends the last segment
extractRouteAndMethod(fullRoute) ==
  LET segments == filterBoolean(split(fullRoute, "/"))
      lastSegment == segments[Len(segments)]
      matching == { k \in DOMAIN lowerHttpMethods :
                      endsWith(lastSegment, methodSuffix(lowerHttpMethods[k])) }
      method == lowerHttpMethods[CHOOSE k \in matching : \A j \in matching : k <= j]
      routePart == replace(lastSegment, methodSuffix(method), S_empty)
      routeSegments == IF routePart # S_empty
                         THEN Append(SubSeq(segments, 1, Len(segments) - 1), routePart)
                         ELSE SubSeq(segments, 1, Len(segments) - 1)
  IN  IF Len(segments) = 0 THEN [route |-> S_slash, method |-> S_ANY]
      ELSE IF matching # {}
        THEN [route |-> IF Len(routeSegments) > 0
                          THEN S_slash \o join(routeSegments, S_slash) ELSE S_slash,
              method |-> toUpperCase(method)]
      ELSE [route |-> fullRoute, method |-> S_ANY]

\* names of directories below the functions directory
DirectorySegments ==
  { <<"u", "s", "e", "r", "s">>, <<"{", "i", "d", "}">>, <<"g", "e", "t">>,
    <<"-", "g", "e", "t">>, <<"u", "s", "e", "r", "s", "-", "p", "o", "s", "t">>,
    <<"{", "i", "d", "}", "-", "d", "e", "l", "e", "t", "e">>,
    <<"a", "-", "g", "e", "t", "-", "b", "-", "g", "e", "t">> }

\* fullRoute = '/' + the directory names joined by '/': at least one directory
RouteAndMethodCalls ==
  { [fn |-> "extractRouteAndMethod", done |-> FALSE,
     segments |-> segments,
     fullRoute |-> pathOf(segments),
     result |-> [route |-> S_empty, method |-> S_empty]] :
       segments \in SegmentLists(DirectorySegments) \ {<<>>} }

InitRouteAndMethod ==
  /\ disk = <<>>
  /\ tasks = <<>>
  /\ routeHandlers = <<>>
  /\ listening = FALSE
  /\ lastDispatch = NoDispatch
  /\ call \in RouteAndMethodCalls

\* this.extractRouteAndMethod(fullRoute)
ExtractRouteAndMethod ==
  /\ call.fn = "extractRouteAndMethod"
  /\ ~call.done
  /\ call' = [call EXCEPT !.done = TRUE, !.result = extractRouteAndMethod(call.fullRoute)]
  /\ UNCHANGED <<disk, tasks, routeHandlers, listening, lastDispatch>>

NextRouteAndMethod ==
  ExtractRouteAndMethod

SpecRouteAndMethod ==
  InitRouteAndMethod /\ [][NextRouteAndMethod]_vars

\* the method suffixes that end the segment
SuffixesOf(seg) ==
  { m \in Range(lowerHttpMethods) : endsWith(seg, methodSuffix(m)) }

\* the segment without its last n characters
DropLast(seg, n) ==
  SubSeq(seg, 1, Len(seg) - n)

\* C21: when the last segment of a built path ends in -get, -post, -put,
\* -patch, -delete, -head or -options, extractRouteAndMethod returns that
\* method in uppercase and the route of the preceding segments followed by the
\* last segment with only that trailing suffix removed (dropped when nothing
\* remains, '/' when no segment remains); otherwise it returns ANY and the path
\* unchanged.
MethodSuffixMapping ==
  (call.fn = "extractRouteAndMethod" /\ call.done) =>
    LET segments == call.segments
        last == segments[Len(segments)]
        before == SubSeq(segments, 1, Len(segments) - 1)
    IN  /\ \A m \in SuffixesOf(last) :
             LET rest == DropLast(last, Len(m) + 1)
                 kept == IF rest = S_empty THEN before ELSE Append(before, rest)
             IN  /\ call.result.method = toUpperCase(m)
                 /\ call.result.route = (IF kept = <<>> THEN S_slash ELSE pathOf(kept))
        /\ SuffixesOf(last) = {} =>
             /\ call.result.method = S_ANY
             /\ call.result.route = call.fullRoute

----------------------------------------------------------------------------
(* Further properties of the expansion (under SpecScan).                   *)

\* the file has an export that names the HTTP method m, in any case
ExportsMethod(file, m) ==
  \E k \in DOMAIN disk[file] : toUpperCase(disk[file][k]) = m

\* the number of exports of the file that name the HTTP method m
MethodExportCount(file, m) ==
  Len(SelectSeq(disk[file], LAMBDA name : toUpperCase(name) = m))

\* C22: expansion does not deduplicate: for a route with several contributing
\* files one MethodRoute is emitted per (file, method export), so when two of
\* its files export the same HTTP method the output holds a MethodRoute with
\* that route and method for each of the two files.
NoDeduplication ==
  Expanded =>
    \A i \in DOMAIN tasks[1].routes :
      LET route == tasks[1].routes[i]
          files == filesOf(route)
          emitted == EmittedFor(tasks[1].methodRoutes, route.route)
      IN  Len(files) > 1 =>
            \A m \in Range(httpMethods) :
              /\ \A k \in DOMAIN files :
                   Len(SelectSeq(emitted, LAMBDA mr : mr.file = files[k] /\ mr.method = m))
                     = MethodExportCount(files[k], m)
              /\ \A a, b \in DOMAIN files :
                   (a # b /\ ExportsMethod(files[a], m) /\ ExportsMethod(files[b], m)) =>
                     \E x, y \in DOMAIN emitted :
                       /\ x # y
                       /\ emitted[x].method = m /\ emitted[y].method = m
                       /\ emitted[x].file = files[a] /\ emitted[y].file = files[b]

\* C22 witness: index.ts exporting GET and POST and create.ts exporting POST
\* were merged into /users, and the expansion holds POST twice, once per file.
NoDeduplicationWitness ==
  /\ Expanded
  /\ DOMAIN disk = {F_usersIndex, F_usersCreate}
  /\ disk[F_usersIndex] = <<S_GET, S_POST>>
  /\ disk[F_usersCreate] = <<S_POST>>
  /\ Len(tasks[1].routes) = 1
  /\ Len(tasks[1].methodRoutes) = 3
  /\ \E x, y \in DOMAIN tasks[1].methodRoutes :
       /\ tasks[1].methodRoutes[x].method = S_POST
       /\ tasks[1].methodRoutes[y].method = S_POST
       /\ tasks[1].methodRoutes[x].route = tasks[1].methodRoutes[y].route
       /\ tasks[1].methodRoutes[x].file = F_usersIndex
       /\ tasks[1].methodRoutes[y].file = F_usersCreate

----------------------------------------------------------------------------
(* Order of the table (under SpecDispatch).                                *)

\* the method before the ':' of the key of an entry
KeyMethod(entry) ==
  CHOOSE m \in Range(httpMethods) \cup {S_ALL} : startsWith(entry.key, m \o <<":">>)

\* the positions of the entries that match the request by pattern: registered
\* under the request method or under ALL, with a template that matches the path
PatternMatches(table, method, requestPath) ==
  { k \in DOMAIN table :
      /\ KeyMethod(table[k]) \in {method, S_ALL}
      /\ matchRoute(RegisteredRoute(table[k], KeyMethod(table[k])), requestPath).match }

\* the table has the exact key method:requestPath
HasExactKey(table, method, requestPath) ==
  hasKey(table, routeKeyOf(method, requestPath))

MatchedTemplate ==
  RegisteredRoute([key |-> lastDispatch.routeKey],
                  KeyMethod([key |-> lastDispatch.routeKey]))

\* C26: params agree with the matched template. For every request resolved to
\* a handler, params has exactly one binding for each [name] segment of the
\* template the handler was registered under, bound to the request segment at
\* that position, and no other binding.
ParamsAgreeWithTemplate ==
  (lastDispatch.served /\ lastDispatch.found) =>
    LET rt == filterBoolean(split(MatchedTemplate, "/"))
        rq == filterBoolean(split(lastDispatch.path, "/"))
        dynamic == { p \in DOMAIN rt : IsParam(rt[p]) }
        params == lastDispatch.params
    IN  /\ Len(rt) = Len(rq)
        /\ \A p \in dynamic : paramValue(params, ParamName(rt[p])) = rq[p]
        /\ Len(params) = Cardinality(dynamic)
        /\ \A k \in DOMAIN params : \E p \in dynamic : params[k].name = ParamName(rt[p])

\* C25: every RouteInfo returned by scanRoutes has a non-empty methods set, and
\* expandRoutesToMethods emits at least one MethodRoute for it.
NoUndispatchableRecord ==
  /\ (Scanned \/ Expanded) =>
       \A i \in DOMAIN tasks[1].routes : Len(tasks[1].routes[i].methods) > 0
  /\ Expanded =>
       \A i \in DOMAIN tasks[1].routes :
         Len(EmittedFor(tasks[1].methodRoutes, tasks[1].routes[i].route)) > 0

----------------------------------------------------------------------------
(* The tree changes between scanRoutes returning and expandRoutesToMethods *)
(* running (SpecScanChange).                                               *)

ChangeMenu ==
  (F_usersIndex :> { <<S_GET>>, <<S_GET, S_POST>> })
  @@ (F_usersCreate :> { <<S_POST>>, <<S_default>> })
  @@ (F_usersId :> { <<S_GET>>, <<S_POST>> })

ChangeDisks ==
  UNION { { d \in [files -> UNION { ChangeMenu[f] : f \in files }] :
              \A f \in files : d[f] \in ChangeMenu[f] } :
            files \in { fs \in SUBSET DOMAIN ChangeMenu : Cardinality(fs) <= MaxFiles } }

InitScanChange ==
  /\ disk \in ChangeDisks
  /\ tasks = <<NewTask>>
  /\ routeHandlers = <<>>
  /\ listening = FALSE
  /\ lastDispatch = NoDispatch
  /\ call = NoCall

\* a route file is rewritten with other exports after scanRoutes has returned
\* and before expandRoutesToMethods runs
RewriteAfterScan(t) ==
  /\ tasks[t].pc = "expand"
  /\ \E f \in DOMAIN disk : \E exportNames \in ChangeMenu[f] \ {disk[f]} :
       disk' = [disk EXCEPT ![f] = exportNames]
  /\ UNCHANGED <<tasks, routeHandlers, listening, lastDispatch, call>>

\* a route file is removed after scanRoutes has returned and before
\* expandRoutesToMethods runs
RemoveAfterScan(t) ==
  /\ tasks[t].pc = "expand"
  /\ \E f \in DOMAIN disk :
       disk' = [ g \in DOMAIN disk \ {f} |-> disk[g] ]
  /\ UNCHANGED <<tasks, routeHandlers, listening, lastDispatch, call>>

NextScanChange ==
  \E t \in DOMAIN tasks :
    Glob(t) \/ ScanLoop(t) \/ RewriteAfterScan(t) \/ RemoveAfterScan(t) \/ Expand(t)

SpecScanChange ==
  InitScanChange /\ [][NextScanChange]_vars

\* the export names a record of the scan can be expanded to
RecordExportNames(route) ==
  Range(route.exports) \cup (IF route.hasDefaultExport THEN {S_default} ELSE {})

\* C24: expansion works on the scan's data only. Whatever happens to the tree
\* after scanRoutes has returned, the MethodRoutes emitted for a record are
\* those its scan-time data determine: every one names an export recorded by
\* the scan in a file of the record, and every method export recorded by the
\* scan is emitted, for single-file and multi-file records alike.
ExpansionUsesScanData ==
  Expanded =>
    \A i \in DOMAIN tasks[1].routes :
      LET route == tasks[1].routes[i]
          emitted == EmittedFor(tasks[1].methodRoutes, route.route)
      IN  /\ \A n \in DOMAIN emitted :
               /\ arrayIncludes(filesOf(route), emitted[n].file)
               /\ emitted[n].exportName \in RecordExportNames(route)
          /\ \A e \in Range(methodExportsOf(route.exports)) :
               \E n \in DOMAIN emitted : emitted[n].exportName = e

----------------------------------------------------------------------------
(* The build command: scan, one build task per MethodRoute and per         *)
(* subscriber, all run concurrently (SpecBuild).                           *)

S_distFunctions == <<"d", "i", "s", "t", "/", "f", "u", "n", "c", "t", "i", "o", "n", "s">>
S_distSubscribers == S_distFunctions \o <<"/", "s", "u", "b", "s", "c", "r", "i", "b", "e", "r", "s", "/">>

\* route.replace(/\[([^\]]+)\]/g, '{$1}')
RECURSIVE safeRouteOf(_)
safeRouteOf(route) ==
  IF route = <<>> THEN <<>>
  ELSE IF route[1] = "[" /\ firstClose(route, "]") >= 3
    THEN LET j == firstClose(route, "]")
         IN  <<"{">> \o SubSeq(route, 2, j - 1) \o <<"}">>
               \o safeRouteOf(SubSeq(route, j + 1, Len(route)))
  ELSE <<route[1]>> \o safeRouteOf(Tail(route))

\* method === 'ALL' ? safeRoute : `${safeRoute}-${method.toLowerCase()}`
routeNameOf(route, method) ==
  IF method = S_ALL THEN safeRouteOf(route)
  ELSE safeRouteOf(route) \o <<"-">> \o toLowerCase(method)

\* the functionDir of buildFunction
functionDirOf(type, name) ==
  IF type = "route" THEN S_distFunctions \o name ELSE S_distSubscribers \o name

\* the import of the wrapper that generateRouteWrapper(file, method, provider)
\* and generateSubscriberWrapper(file, provider) write: the file and the
\* symbol imported from it
wrapperImport(type, file, method) ==
  IF type = "route" THEN [file |-> file, exportName |-> method]
  ELSE [file |-> file, exportName |-> S_listen]

\* the buildFunction calls pushed by the two forEach loops
routeBuildTasks(methodRoutes) ==
  [ k \in DOMAIN methodRoutes |->
      [type |-> "route",
       name |-> routeNameOf(methodRoutes[k].route, methodRoutes[k].method),
       file |-> methodRoutes[k].file,
       method |-> methodRoutes[k].method,
       pc |-> "wrapper",
       wrapper |-> NoHandler] ]

subscriberBuildTasks(subscribers) ==
  [ k \in DOMAIN subscribers |->
      [type |-> "subscriber",
       name |-> subscribers[k].name,
       file |-> subscribers[k].file,
       method |-> S_listen,
       pc |-> "wrapper",
       wrapper |-> NoHandler] ]

\* one run of the build command; dist maps a function directory to the import
\* of the wrapper bundled into it
NewBuild ==
  [pc |-> "scan", methodRoutes |-> <<>>, subscribers |-> <<>>,
   buildTasks |-> <<>>, dist |-> <<>>]

BuildMenu ==
  (F_usersIndex :> { <<S_GET, S_POST>>, <<S_get>> })
  @@ (F_usersCreate :> { <<S_POST>> })
  @@ (F_usersId :> { <<S_GET>>, <<S_default>> })
  @@ (F_userCreated :> { <<S_listen>> })

BuildDisks ==
  UNION { { d \in [files -> UNION { BuildMenu[f] : f \in files }] :
              \A f \in files : d[f] \in BuildMenu[f] } :
            files \in { fs \in SUBSET DOMAIN BuildMenu : Cardinality(fs) <= MaxFiles } }

InitBuild ==
  /\ disk \in BuildDisks
  /\ tasks = <<NewBuild>>
  /\ routeHandlers = <<>>
  /\ listening = FALSE
  /\ lastDispatch = NoDispatch
  /\ call = NoCall

\* the files of the tree below a directory
FilesBelow(dir) ==
  { f \in DOMAIN disk : startsWith(f, dir \o S_slash) }

\* scanRoutes, expandRoutesToMethods, scanSubscribers, the cleaning of dist and
\* the two forEach loops that start the build tasks
StartBuild(t) ==
  /\ tasks[t].pc = "scan"
  /\ \E routeOrder \in GlobOrders(FilesBelow(S_functionsApi)) :
     \E subscriberOrder \in GlobOrders(FilesBelow(S_functionsSubscribers)) :
       LET tree == [ f \in FilesBelow(S_functionsApi) |-> disk[f] ]
           methodRoutes == expandRoutesToMethods(scanRoutes(routeOrder, tree), tree)
           subscribers == scanSubscribers(subscriberOrder, disk)
       IN  tasks' = [tasks EXCEPT
                       ![t].methodRoutes = methodRoutes,
                       ![t].subscribers = subscribers,
                       ![t].buildTasks = routeBuildTasks(methodRoutes)
                                           \o subscriberBuildTasks(subscribers),
                       ![t].dist = <<>>,
                       ![t].pc = "building"]
  /\ UNCHANGED <<disk, routeHandlers, listening, lastDispatch, call>>

\* buildFunction, first await: the wrapper file has been written
GenerateWrapper(t, k) ==
  /\ tasks[t].pc = "building"
  /\ tasks[t].buildTasks[k].pc = "wrapper"
  /\ LET b == tasks[t].buildTasks[k]
     IN  tasks' = [tasks EXCEPT
                     ![t].buildTasks[k].wrapper = wrapperImport(b.type, b.file, b.method),
                     ![t].buildTasks[k].pc = "bundle"]
  /\ UNCHANGED <<disk, routeHandlers, listening, lastDispatch, call>>

\* buildFunction, mkdir and bundleRoute: the bundle of the wrapper is written
\* into the function directory, over what is there
BundleFunction(t, k) ==
  /\ tasks[t].pc = "building"
  /\ tasks[t].buildTasks[k].pc = "bundle"
  /\ LET b == tasks[t].buildTasks[k]
         functionDir == functionDirOf(b.type, b.name)
         dist == tasks[t].dist
     IN  tasks' = [tasks EXCEPT
                     ![t].dist = [ d \in DOMAIN dist \cup {functionDir} |->
                                     IF d = functionDir THEN b.wrapper ELSE dist[d] ],
                     ![t].buildTasks[k].pc = "done"]
  /\ UNCHANGED <<disk, routeHandlers, listening, lastDispatch, call>>

\* await Promise.all(buildTasks) has resolved
BuildCompleted(t) ==
  /\ tasks[t].pc = "building"
  /\ \A k \in DOMAIN tasks[t].buildTasks : tasks[t].buildTasks[k].pc = "done"
  /\ tasks' = [tasks EXCEPT ![t].pc = "completed"]
  /\ UNCHANGED <<disk, routeHandlers, listening, lastDispatch, call>>

NextBuild ==
  \E t \in DOMAIN tasks :
    \/ StartBuild(t)
    \/ \E k \in DOMAIN tasks[t].buildTasks : GenerateWrapper(t, k) \/ BundleFunction(t, k)
    \/ BuildCompleted(t)

SpecBuild ==
  InitBuild /\ [][NextBuild]_vars

\* C27: build and dev server bind the same symbol. The wrapper the build
\* generates for a MethodRoute imports from MethodRoute.file the export named
\* MethodRoute.exportName, the export the dev server loads for it.
BuildBindsDevSymbol ==
  \A k \in DOMAIN tasks[1].methodRoutes :
    tasks[1].buildTasks[k].pc # "wrapper" =>
      tasks[1].buildTasks[k].wrapper
        = loadedHandler(tasks[1].methodRoutes[k].file, tasks[1].methodRoutes[k].exportName)

\* C28: no two build tasks of one build write the same output: every
\* MethodRoute and every subscriber is bundled into a function directory of
\* its own, so after the build each directory holds the bundle of its task
\* whatever the completion order.
DistinctBuildOutputs ==
  /\ \A j, k \in DOMAIN tasks[1].buildTasks :
       j # k => functionDirOf(tasks[1].buildTasks[j].type, tasks[1].buildTasks[j].name)
                  # functionDirOf(tasks[1].buildTasks[k].type, tasks[1].buildTasks[k].name)
  /\ tasks[1].pc = "completed" =>
       \A k \in DOMAIN tasks[1].buildTasks :
         tasks[1].dist[functionDirOf(tasks[1].buildTasks[k].type, tasks[1].buildTasks[k].name)]
           = tasks[1].buildTasks[k].wrapper

----------------------------------------------------------------------------
(* From the build to the deployment stack: the directory the build writes  *)
(* for a MethodRoute, as discoverLambdaFiles reads it back (SpecRoundTrip). *)

S_subscribers == <<"s", "u", "b", "s", "c", "r", "i", "b", "e", "r", "s">>

NotDiscovered ==
  [found |-> FALSE, route |-> S_empty, method |-> S_empty]

\* discoverLambdaFiles on a dist/functions that holds the one function
\* directory dist/functions + name: the walk goes down the directories of
\* name, skips a directory called subscribers, and decodes the directory that
\* holds the bundle; a bundle written into dist/functions itself is not seen
discoverLambdaFiles(name) ==
  LET dirs == filterBoolean(split(name, "/"))
      fullRoute == S_slash \o replaceAll(safeRouteOf(join(dirs, S_slash)), "\\", "/")
      decoded == extractRouteAndMethod(fullRoute)
  IN  IF dirs = <<>> \/ arrayIncludes(dirs, S_subscribers) THEN NotDiscovered
      ELSE [found |-> TRUE, route |-> decoded.route, method |-> decoded.method]

\* segments of the routes that are built
RouteSegments ==
  { <<"u", "s", "e", "r", "s">>, <<"[", "i", "d", "]">>,
    <<"a", "-", "g", "e", "t", "-", "b">>, S_subscribers }

BuiltMethods ==
  { S_GET, S_POST, S_DELETE, S_ALL }

RoundTripCalls ==
  { [fn |-> "roundTrip", done |-> FALSE,
     route |-> pathOf(segments),
     method |-> method,
     name |-> S_empty,
     result |-> NotDiscovered] :
       segments \in SegmentLists(RouteSegments), method \in BuiltMethods }

InitRoundTrip ==
  /\ disk = <<>>
  /\ tasks = <<>>
  /\ routeHandlers = <<>>
  /\ listening = FALSE
  /\ lastDispatch = NoDispatch
  /\ call \in RoundTripCalls

\* the build names the function directory of the MethodRoute and the stack
\* discovers it
BuildThenDiscover ==
  /\ call.fn = "roundTrip"
  /\ ~call.done
  /\ LET name == routeNameOf(call.route, call.method)
     IN  call' = [call EXCEPT !.done = TRUE, !.name = name,
                              !.result = discoverLambdaFiles(name)]
  /\ UNCHANGED <<disk, tasks, routeHandlers, listening, lastDispatch>>

NextRoundTrip ==
  BuildThenDiscover

SpecRoundTrip ==
  InitRoundTrip /\ [][NextRoundTrip]_vars

\* C29: build-name round trip. Decoding the function directory name the build
\* gives a MethodRoute (route with each [x] rewritten to {x}, then '-' and the
\* lowercase method unless the method is ALL) yields the rewritten route and
\* the same method, or the rewritten route and ANY when the method is ALL.
BuildNameRoundTrip ==
  (call.fn = "roundTrip" /\ call.done) =>
    /\ call.result.found
    /\ call.result.route = safeRouteOf(call.route)
    /\ call.result.method = (IF call.method = S_ALL THEN S_ANY ELSE call.method)

----------------------------------------------------------------------------
(* The registration loop of one rescan cycle, from clear() on, while the   *)
(* server answers requests (SpecRegister). call keeps the MethodRoutes of  *)
(* the cycle.                                                              *)

\* every file of DispatchRoutes with the exports they name
RegisterTree ==
  (F_usersId :> <<S_GET, S_default>>)
  @@ (F_usersActive :> <<S_default, S_GET>>)
  @@ (F_usersIndex :> <<S_GET, S_POST>>)
  @@ (F_usersCreate :> <<S_POST>>)

\* the tree when the handlers are loaded: whole, or without create.ts
RegisterDisks ==
  { RegisterTree, [ f \in DOMAIN RegisterTree \ {F_usersCreate} |-> RegisterTree[f] ] }

InitRegister ==
  /\ disk \in RegisterDisks
  /\ \E methodRoutes \in UNION { [1..n -> DispatchRoutes] : n \in 0..MaxRoutes } :
       /\ tasks = <<[NewTask EXCEPT !.pc = "cleanup", !.methodRoutes = methodRoutes]>>
       /\ call = [fn |-> "scanAndRegisterRoutes", methodRoutes |-> methodRoutes]
  /\ routeHandlers = <<>>
  /\ listening = TRUE
  /\ lastDispatch = NoDispatch

NextRegister ==
  \/ \E t \in DOMAIN tasks : Cleanup(t) \/ Register(t)
  \/ HandleRequest

SpecRegister ==
  InitRegister /\ [][NextRegister]_vars

\* registerRoute has completed for the k-th MethodRoute of the cycle and has
\* stored its handler
Registered(k) ==
  /\ \/ tasks[1].pc = "done"
     \/ tasks[1].pc = "register" /\ k < tasks[1].i
  /\ canLoad(disk, call.methodRoutes[k].file, call.methodRoutes[k].exportName)

SameKey(a, b) ==
  /\ call.methodRoutes[a].method = call.methodRoutes[b].method
  /\ call.methodRoutes[a].route = call.methodRoutes[b].route

============================================================================
